---- MODULE Spec2Model ----
(***************************************************************************)
(* A model of the 2048 board engine (src/src/board.rs, src/src/tile/*.rs)  *)
(* and of the frame loop that drives it (src/src/main.rs).                 *)
(***************************************************************************)
EXTENDS Integers, Sequences, FiniteSets, TLC

VARIABLES
    board,            \* GameState.board / the Board under test: [size, tiles, traversal_map]
    rng,              \* GameState.rng: the state of the seeded generator
    \* the frame loop of main.rs
    pc,               \* the system of the Update schedule that runs next
    deferred_events,  \* GameState.deferred_events
    action_events,    \* Events<Action>: the actions sent and not yet read by start_animate
    entities,         \* GameState.entities: Position -> Entity
    animating,        \* the Animating components: Entity -> [elapsed, animation]
    finishing,        \* update_animations: entities whose timer finished, not yet visited
    live,             \* the tile entities that exist in the world
    next_entity,      \* the id the next spawned tile entity gets
    replay,           \* GameState.replay
    panicked,         \* the program has panicked
    moves,            \* number of key presses that produced a non-empty plan
    \* the harness around the Board operations
    op,               \* the operation that produced the current state
    steps,            \* number of operations performed so far
    in_direction,     \* the direction passed to the last planning or moving call
    pre_board,        \* the board as it was before the last operation
    last_plan,        \* the list returned by the last plan_slide_and_merge call
    prev_plan,        \* Some(<<direction, list>>) when the operation before the last was a plan call too
    last_moved,       \* the flag returned by the last slide_and_merge call
    last_spawn,       \* the Option<Action> returned by the last plan_spawn_random_tile call
    text,             \* the string passed to the last from_str call or returned by the last to_string call
    decoded,          \* Some(the Result returned by the last from_str call)
    twin,             \* Some(the second run: its board, generator, last spawn and number of operations)
    value_call        \* Some(the operands and the Option of the result of the Value::merge call under test)

game_vars == <<pc, deferred_events, action_events, entities, animating, finishing, live,
               next_entity, replay, panicked, moves>>

harness_vars == <<op, steps, in_direction, pre_board, last_plan, prev_plan, last_moved, last_spawn,
                  text, decoded, twin, value_call>>

vars == <<board, rng, game_vars, harness_vars>>

(***************************************************************************)
(* Bounds of the model.                                                    *)
(***************************************************************************)
MaxInitExp == 1       \* pattern boards use exponents 0..MaxInitExp and 10, 11
MaxSteps == 2         \* operations per behaviour of the planner harness
MaxBoardSteps == 4    \* operations per behaviour of the board harness
MaxSeed == 5          \* generator seeds 0..MaxSeed
MaxMoves == 2         \* key presses with a non-empty plan per behaviour of the frame loop
AnimFrames == 2       \* an animation lasts at most this many frames

(***************************************************************************)
(* Option<T>: None is the empty sequence, Some(x) the one-element sequence.*)
(***************************************************************************)
None == <<>>
Some(x) == <<x>>

(***************************************************************************)
(* tile/value.rs                                                           *)
(***************************************************************************)
MAX_TILE_VALUE == 2048

Empty == [tag |-> "Empty"]
Number(n) == [tag |-> "Number", n |-> n]

\* mutant of merge: two numbers give self, the other number is lost
merge_keeps_self(self, other) ==
    IF self.tag = "Empty" THEN other ELSE self

\* mutant of merge: unequal numbers are not added, self is returned
merge_checked(self, other) ==
    IF self.tag = "Empty" THEN other
    ELSE IF other.tag = "Number" /\ other.n = self.n THEN Number(self.n + other.n)
    ELSE self

\* n + m is a u32 sum; the operands of the model stay far below 2^31, so the
\* sum never wraps
merge(self, other) ==
    IF self.tag = "Empty" THEN other
    ELSE IF other.tag = "Number" THEN Number(self.n + other.n)
    ELSE self

RECURSIVE trailing_zeros(_)
trailing_zeros(n) ==
    IF n = 0 THEN 32
    ELSE IF n % 2 = 1 THEN 0
    ELSE 1 + trailing_zeros(n \div 2)

\* mutant of to_exponent: the exponent is counted from 0 for Number(2), as
\* tile_color counts it
to_exponent_from_two(self) ==
    IF self.tag = "Empty" THEN 0 ELSE trailing_zeros(self.n) - 1

to_exponent(self) ==
    IF self.tag = "Empty" THEN 0 ELSE trailing_zeros(self.n)

Alphabet == <<"0", "1", "2", "3", "4", "5", "6", "7", "8", "9", "A", "B">>

\* mutant of value_to_string: the arm of exponent 11 is missing
value_to_string_no_b(self) ==
    LET e == to_exponent(self)
    IN IF e \in 0..10 THEN Alphabet[e + 1] ELSE "0"

\* impl Display for Value
value_to_string(self) ==
    LET e == to_exponent(self)
    IN IF e \in 0..11 THEN Alphabet[e + 1] ELSE "0"

\* impl FromStr for Value: [ok, value]
value_from_str(s) ==
    CASE s = "0" -> [ok |-> TRUE, value |-> Empty]
      [] s = "1" -> [ok |-> TRUE, value |-> Number(2)]
      [] s = "2" -> [ok |-> TRUE, value |-> Number(4)]
      [] s = "3" -> [ok |-> TRUE, value |-> Number(8)]
      [] s = "4" -> [ok |-> TRUE, value |-> Number(16)]
      [] s = "5" -> [ok |-> TRUE, value |-> Number(32)]
      [] s = "6" -> [ok |-> TRUE, value |-> Number(64)]
      [] s = "7" -> [ok |-> TRUE, value |-> Number(128)]
      [] s = "8" -> [ok |-> TRUE, value |-> Number(256)]
      [] s = "9" -> [ok |-> TRUE, value |-> Number(512)]
      [] s = "A" -> [ok |-> TRUE, value |-> Number(1024)]
      [] s = "B" -> [ok |-> TRUE, value |-> Number(2048)]
      [] OTHER -> [ok |-> FALSE]

(***************************************************************************)
(* direction.rs, tile/position.rs                                          *)
(***************************************************************************)
Direction == {"Left", "Right", "Up", "Down"}

Position(r, c) == [row |-> r, col |-> c]

\* mutant of generate_line_traversal: the inner loop pushes the row index twice
generate_line_traversal_row_twice(size, transpose, mirror) ==
    [r \in 1..size |-> [c \in 1..size |-> Position(r - 1, r - 1)]]

\* mutant of generate_line_traversal: a transposed traversal is never mirrored
generate_line_traversal_unmirrored_columns(size, transpose, mirror) ==
    LET range_eye == [i \in 1..size |-> i - 1]
        range_inv == [i \in 1..size |-> size - i]
        rows == range_eye
        cols == IF mirror /\ ~transpose THEN range_inv ELSE range_eye
    IN [r \in 1..size |->
          [c \in 1..size |->
             IF transpose THEN Position(cols[c], rows[r])
                          ELSE Position(rows[r], cols[c])]]

generate_line_traversal(size, transpose, mirror) ==
    LET range_eye == [i \in 1..size |-> i - 1]
        range_inv == [i \in 1..size |-> size - i]
        rows == range_eye
        cols == IF mirror THEN range_inv ELSE range_eye
    IN [r \in 1..size |->
          [c \in 1..size |->
             IF transpose THEN Position(cols[c], rows[r])
                          ELSE Position(rows[r], cols[c])]]

\* mutant of generate_traversal_map: the mirror flags of Up and Down are exchanged
generate_traversal_map_up_mirrored(size) ==
    [d \in Direction |->
        CASE d = "Left" -> generate_line_traversal(size, FALSE, FALSE)
          [] d = "Right" -> generate_line_traversal(size, FALSE, TRUE)
          [] d = "Up" -> generate_line_traversal(size, TRUE, TRUE)
          [] d = "Down" -> generate_line_traversal(size, TRUE, FALSE)]

generate_traversal_map(size) ==
    [d \in Direction |->
        CASE d = "Left" -> generate_line_traversal(size, FALSE, FALSE)
          [] d = "Right" -> generate_line_traversal(size, FALSE, TRUE)
          [] d = "Up" -> generate_line_traversal(size, TRUE, FALSE)
          [] d = "Down" -> generate_line_traversal(size, TRUE, TRUE)]

(***************************************************************************)
(* tile/mod.rs, action.rs                                                  *)
(***************************************************************************)
Tile(v, p) == [value |-> v, position |-> p]

SpawnRandomTile(tile) == [type |-> "SpawnRandomTile", tile |-> tile]
SlideTile(tile, to) == [type |-> "SlideTile", tile |-> tile, to |-> to]
MergeTiles(tile1, tile2, to, value) ==
    [type |-> "MergeTiles", tile1 |-> tile1, tile2 |-> tile2, to |-> to, value |-> value]

(***************************************************************************)
(* board.rs: Board                                                         *)
(***************************************************************************)
new(size) ==
    [size |-> size,
     tiles |-> [p \in {Position(r, c) : r \in 0..(size - 1), c \in 0..(size - 1)} |-> Empty],
     traversal_map |-> generate_traversal_map(size)]

\* mutant of set_value: an Empty value removes the entry of p
set_value_removes_empty(self, p, value) ==
    IF value = Empty
       THEN [self EXCEPT !.tiles = [q \in DOMAIN self.tiles \ {p} |-> self.tiles[q]]]
       ELSE [self EXCEPT !.tiles = (p :> value) @@ self.tiles]

\* HashMap::insert: replaces the entry of p, or adds one
set_value(self, p, value) ==
    [self EXCEPT !.tiles = (p :> value) @@ self.tiles]

get_value(self, p) == self.tiles[p]

get_tile(self, p) == Tile(get_value(self, p), p)

\* mutant of apply: MergeTiles sets the destination before it clears the sources
apply_merge_dest_first(self, event) ==
    CASE event.type = "SpawnRandomTile" ->
            set_value(self, event.tile.position, event.tile.value)
      [] event.type = "SlideTile" ->
            set_value(set_value(self, event.tile.position, Empty), event.to, event.tile.value)
      [] event.type = "MergeTiles" ->
            set_value(set_value(set_value(self, event.to, event.value),
                                event.tile1.position, Empty),
                      event.tile2.position, Empty)

apply(self, event) ==
    CASE event.type = "SpawnRandomTile" ->
            set_value(self, event.tile.position, event.tile.value)
      [] event.type = "SlideTile" ->
            set_value(set_value(self, event.tile.position, Empty), event.to, event.tile.value)
      [] event.type = "MergeTiles" ->
            set_value(set_value(set_value(self, event.tile1.position, Empty),
                                event.tile2.position, Empty),
                      event.to, event.value)

(***************************************************************************)
(* board.rs: slide_and_merge_line.  The scan state holds the locals of the *)
(* function; line_step is one iteration of `for current_cell in ...`.      *)
(***************************************************************************)
line_init(self) ==
    [events |-> <<>>, board_clone |-> self, focus_idx |-> 0,
     prev |-> None, deferred_slide |-> None, deferred |-> None]

\* mutant of can_slide: every placed tile is given a slide
can_slide_always(current_cell, focus_cell) == TRUE

\* line 119: there were empty cells or merges up to this point
can_slide(current_cell, focus_cell) == current_cell # focus_cell

\* mutant of can_merge: the MAX_TILE_VALUE limit is missing
can_merge_no_limit(prev_value, current_value) == prev_value = current_value

\* mutant of can_merge: the values are not compared
can_merge_unequal(prev_value, current_value) == prev_value < MAX_TILE_VALUE

\* line 129
can_merge(prev_value, current_value) ==
    prev_value = current_value /\ prev_value < MAX_TILE_VALUE

\* mutant of flush_deferred: the deferred slide is dropped, not emitted
flush_deferred_dropped(st) == [st EXCEPT !.deferred = None]

\* lines 147-151 and 173-177: complete the deferred slide, if there is one
flush_deferred(st) ==
    IF st.deferred # None
       THEN LET event == SlideTile(st.deferred[1][1], st.deferred[1][2])
            IN [st EXCEPT !.deferred = None,
                          !.board_clone = apply(@, event),
                          !.events = Append(@, event)]
       ELSE st

\* mutant of line_merge: the merged tile stays the previous tile of the scan
line_merge_keeps_prev(st, line_traversal, i) ==
    LET current_cell == line_traversal[i + 1]
        prev_idx == st.prev[1][1]
        prev_cell == line_traversal[prev_idx + 1]
        taken == IF st.deferred # None
                    THEN st.deferred[1]
                    ELSE <<get_tile(st.board_clone, prev_cell), prev_cell>>
        tile2 == get_tile(st.board_clone, current_cell)
        value == merge(taken[1].value, tile2.value)
        event == MergeTiles(taken[1], tile2, taken[2], value)
    IN [st EXCEPT !.deferred = None,
                  !.deferred_slide = IF st.deferred # None THEN None ELSE @,
                  !.board_clone = apply(@, event),
                  !.events = Append(@, event),
                  !.prev = Some(<<prev_idx, value.n>>)]

\* mutant of line_merge: the deferred slide is emitted and the merge is made
\* from the slot it filled
line_merge_after_flush(st, line_traversal, i) ==
    LET current_cell == line_traversal[i + 1]
        prev_cell == line_traversal[st.prev[1][1] + 1]
        flushed == flush_deferred(st)
        tile1 == get_tile(flushed.board_clone, prev_cell)
        tile2 == get_tile(flushed.board_clone, current_cell)
        event == MergeTiles(tile1, tile2, prev_cell, merge(tile1.value, tile2.value))
    IN [flushed EXCEPT !.deferred_slide = None,
                       !.board_clone = apply(@, event),
                       !.events = Append(@, event),
                       !.prev = None]

\* mutant of line_merge: the merge lands where its first source tile stands
line_merge_in_place(st, line_traversal, i) ==
    LET current_cell == line_traversal[i + 1]
        prev_cell == line_traversal[st.prev[1][1] + 1]
        taken == IF st.deferred # None
                    THEN st.deferred[1]
                    ELSE <<get_tile(st.board_clone, prev_cell), prev_cell>>
        tile1 == taken[1]
        tile2 == get_tile(st.board_clone, current_cell)
        value == merge(tile1.value, tile2.value)
        event == MergeTiles(tile1, tile2, tile1.position, value)
    IN [st EXCEPT !.deferred = None,
                  !.deferred_slide = IF st.deferred # None THEN None ELSE @,
                  !.board_clone = apply(@, event),
                  !.events = Append(@, event),
                  !.prev = None]

\* mutant of line_merge: the deferred slide is read but not taken, so it stays
\* pending after the merge
line_merge_keeps_deferred(st, line_traversal, i) ==
    LET current_cell == line_traversal[i + 1]
        prev_cell == line_traversal[st.prev[1][1] + 1]
        taken == IF st.deferred # None
                    THEN st.deferred[1]
                    ELSE <<get_tile(st.board_clone, prev_cell), prev_cell>>
        tile1 == taken[1]
        pos == taken[2]
        tile2 == get_tile(st.board_clone, current_cell)
        value == merge(tile1.value, tile2.value)
        event == MergeTiles(tile1, tile2, pos, value)
    IN [st EXCEPT !.board_clone = apply(@, event),
                  !.events = Append(@, event),
                  !.prev = None]

\* mutant of line_merge: the first source tile is recorded at the slot its
\* deferred slide was going to, not where it stands
line_merge_records_slot(st, line_traversal, i) ==
    LET current_cell == line_traversal[i + 1]
        prev_cell == line_traversal[st.prev[1][1] + 1]
        taken == IF st.deferred # None
                    THEN st.deferred[1]
                    ELSE <<get_tile(st.board_clone, prev_cell), prev_cell>>
        tile1 == Tile(taken[1].value, taken[2])
        pos == taken[2]
        tile2 == get_tile(st.board_clone, current_cell)
        value == merge(tile1.value, tile2.value)
        event == MergeTiles(tile1, tile2, pos, value)
    IN [st EXCEPT !.deferred = None,
                  !.deferred_slide = IF st.deferred # None THEN None ELSE @,
                  !.board_clone = apply(@, event),
                  !.events = Append(@, event),
                  !.prev = None]

\* lines 133-144: the current tile merges with the previous one
line_merge(st, line_traversal, i) ==
    LET current_cell == line_traversal[i + 1]
        prev_cell == line_traversal[st.prev[1][1] + 1]
        taken == IF st.deferred # None
                    THEN st.deferred[1]
                    ELSE <<get_tile(st.board_clone, prev_cell), prev_cell>>
        tile1 == taken[1]
        pos == taken[2]
        tile2 == get_tile(st.board_clone, current_cell)
        value == merge(tile1.value, tile2.value)
        event == MergeTiles(tile1, tile2, pos, value)
    IN [st EXCEPT !.deferred = None,
                  !.deferred_slide = IF st.deferred # None THEN None ELSE @,
                  !.board_clone = apply(@, event),
                  !.events = Append(@, event),
                  !.prev = None]

\* mutant of line_place: the slide of the current tile is applied and emitted
\* at once (lines 156-157 active), not deferred
line_place_eager(st, line_traversal, i) ==
    LET current_cell == line_traversal[i + 1]
        focus_cell == line_traversal[st.focus_idx + 1]
        current_value == st.board_clone.tiles[current_cell].n
    IN IF can_slide(current_cell, focus_cell) THEN
          LET flushed == flush_deferred(st)
              tile == get_tile(flushed.board_clone, current_cell)
              event == SlideTile(tile, focus_cell)
          IN [flushed EXCEPT !.deferred = None,
                             !.deferred_slide = None,
                             !.board_clone = apply(@, event),
                             !.events = Append(@, event),
                             !.prev = Some(<<st.focus_idx, current_value>>),
                             !.focus_idx = @ + 1]
       ELSE [st EXCEPT !.prev = Some(<<st.focus_idx, current_value>>),
                       !.focus_idx = @ + 1]

\* mutant of line_place: focus_idx is not advanced
line_place_keeps_focus(st, line_traversal, i) ==
    LET current_cell == line_traversal[i + 1]
        focus_cell == line_traversal[st.focus_idx + 1]
        current_value == st.board_clone.tiles[current_cell].n
    IN IF can_slide(current_cell, focus_cell) THEN
          LET flushed == flush_deferred(st)
              tile == get_tile(flushed.board_clone, current_cell)
              event == SlideTile(tile, focus_cell)
          IN [flushed EXCEPT !.deferred = Some(<<tile, focus_cell>>),
                             !.deferred_slide = Some(event),
                             !.prev = Some(<<st.focus_idx, current_value>>)]
       ELSE [st EXCEPT !.prev = Some(<<st.focus_idx, current_value>>)]

\* mutant of line_place: with a slide pending, the slide of the current tile
\* is emitted and the older one stays deferred
line_place_swaps_deferred(st, line_traversal, i) ==
    LET current_cell == line_traversal[i + 1]
        focus_cell == line_traversal[st.focus_idx + 1]
        current_value == st.board_clone.tiles[current_cell].n
    IN IF can_slide(current_cell, focus_cell) THEN
          LET tile == get_tile(st.board_clone, current_cell)
              event == SlideTile(tile, focus_cell)
          IN IF st.deferred # None
                THEN [st EXCEPT !.board_clone = apply(@, event),
                                !.events = Append(@, event),
                                !.prev = Some(<<st.focus_idx, current_value>>),
                                !.focus_idx = @ + 1]
                ELSE [st EXCEPT !.deferred = Some(<<tile, focus_cell>>),
                                !.deferred_slide = Some(event),
                                !.prev = Some(<<st.focus_idx, current_value>>),
                                !.focus_idx = @ + 1]
       ELSE [st EXCEPT !.prev = Some(<<st.focus_idx, current_value>>),
                       !.focus_idx = @ + 1]

\* mutant of line_place: the tile is given a slide also when it stands at the
\* focus slot
line_place_always_slides(st, line_traversal, i) ==
    LET current_cell == line_traversal[i + 1]
        focus_cell == line_traversal[st.focus_idx + 1]
        current_value == st.board_clone.tiles[current_cell].n
        flushed == flush_deferred(st)
        tile == get_tile(flushed.board_clone, current_cell)
        event == SlideTile(tile, focus_cell)
    IN [flushed EXCEPT !.deferred = Some(<<tile, focus_cell>>),
                       !.deferred_slide = Some(event),
                       !.prev = Some(<<st.focus_idx, current_value>>),
                       !.focus_idx = @ + 1]

\* lines 146-160: the current tile is placed behind the previous one
line_place(st, line_traversal, i) ==
    LET current_cell == line_traversal[i + 1]
        focus_cell == line_traversal[st.focus_idx + 1]
        current_value == st.board_clone.tiles[current_cell].n
    IN IF can_slide(current_cell, focus_cell) THEN
          LET flushed == flush_deferred(st)
              tile == get_tile(flushed.board_clone, current_cell)
              event == SlideTile(tile, focus_cell)
          IN [flushed EXCEPT !.deferred = Some(<<tile, focus_cell>>),
                             !.deferred_slide = Some(event),
                             !.prev = Some(<<st.focus_idx, current_value>>),
                             !.focus_idx = @ + 1]
       ELSE [st EXCEPT !.prev = Some(<<st.focus_idx, current_value>>),
                       !.focus_idx = @ + 1]

\* mutant of line_first: the first tile of a line is given a slide wherever it is
line_first_always_slides(st, line_traversal, i) ==
    LET current_cell == line_traversal[i + 1]
        focus_cell == line_traversal[st.focus_idx + 1]
        tile == get_tile(st.board_clone, current_cell)
    IN [st EXCEPT !.deferred = Some(<<tile, focus_cell>>),
                  !.deferred_slide = Some(SlideTile(tile, focus_cell)),
                  !.prev = Some(<<st.focus_idx, tile.value.n>>),
                  !.focus_idx = @ + 1]

\* mutant of line_first: focus_idx is advanced by two
line_first_skips_slot(st, line_traversal, i) ==
    LET current_cell == line_traversal[i + 1]
        focus_cell == line_traversal[st.focus_idx + 1]
        current_value == st.board_clone.tiles[current_cell].n
    IN IF can_slide(current_cell, focus_cell) THEN
          LET tile == get_tile(st.board_clone, current_cell)
              event == SlideTile(tile, focus_cell)
          IN [st EXCEPT !.deferred = Some(<<tile, focus_cell>>),
                        !.deferred_slide = Some(event),
                        !.prev = Some(<<st.focus_idx, current_value>>),
                        !.focus_idx = @ + 2]
       ELSE [st EXCEPT !.prev = Some(<<st.focus_idx, current_value>>),
                       !.focus_idx = @ + 2]

\* lines 163-170: the first tile of the line, or the first after a merge
line_first(st, line_traversal, i) ==
    LET current_cell == line_traversal[i + 1]
        focus_cell == line_traversal[st.focus_idx + 1]
        current_value == st.board_clone.tiles[current_cell].n
    IN IF can_slide(current_cell, focus_cell) THEN
          LET tile == get_tile(st.board_clone, current_cell)
              event == SlideTile(tile, focus_cell)
          IN [st EXCEPT !.deferred = Some(<<tile, focus_cell>>),
                        !.deferred_slide = Some(event),
                        !.prev = Some(<<st.focus_idx, current_value>>),
                        !.focus_idx = @ + 1]
       ELSE [st EXCEPT !.prev = Some(<<st.focus_idx, current_value>>),
                       !.focus_idx = @ + 1]

line_step(st, line_traversal, i) ==
    LET current_cell == line_traversal[i + 1]
        cell_value == st.board_clone.tiles[current_cell]
    IN IF cell_value.tag # "Number" THEN st   \* continue: skip empty cells
       ELSE IF st.prev # None THEN
               IF can_merge(st.prev[1][2], cell_value.n)
                  THEN line_merge(st, line_traversal, i)
                  ELSE line_place(st, line_traversal, i)
            ELSE line_first(st, line_traversal, i)

RECURSIVE line_loop(_, _, _)
line_loop(st, line_traversal, i) ==
    IF i >= Len(line_traversal) THEN st
    ELSE line_loop(line_step(st, line_traversal, i), line_traversal, i + 1)

\* mutant of slide_and_merge_line: the scan works on self, not on a clone
slide_and_merge_line_in_place(self, line_traversal) ==
    LET st == flush_deferred(line_loop(line_init(self), line_traversal, 0))
    IN [events |-> st.events, self |-> st.board_clone]

\* The scan works on board_clone, a clone of self; self is returned as the
\* call left it.
slide_and_merge_line(self, line_traversal) ==
    LET st == flush_deferred(line_loop(line_init(self), line_traversal, 0))
    IN [events |-> st.events, self |-> self]

\* mutant of plan_lines: the actions of a line are put before those of the
\* lines planned so far
RECURSIVE plan_lines_prepends(_, _, _, _)
plan_lines_prepends(self, line_traversals, l, events) ==
    IF l > Len(line_traversals) THEN [events |-> events, self |-> self]
    ELSE LET es == slide_and_merge_line(self, line_traversals[l])
         IN plan_lines_prepends(es.self, line_traversals, l + 1, es.events \o events)

RECURSIVE plan_lines(_, _, _, _)
plan_lines(self, line_traversals, l, events) ==
    IF l > Len(line_traversals) THEN [events |-> events, self |-> self]
    ELSE LET es == slide_and_merge_line(self, line_traversals[l])
         IN plan_lines(es.self, line_traversals, l + 1, events \o es.events)

plan_slide_and_merge(self, direction) ==
    plan_lines(self, self.traversal_map[direction], 1, <<>>)

RECURSIVE apply_all(_, _)
apply_all(self, events) ==
    IF events = <<>> THEN self
    ELSE apply_all(apply(self, Head(events)), Tail(events))

\* mutant of slide_and_merge: a plan of one action does not count as a move
slide_and_merge_miscounted(self, direction) ==
    LET planned == plan_slide_and_merge(self, direction)
    IN [moved |-> Len(planned.events) > 1,
        self |-> apply_all(planned.self, planned.events)]

\* mutant of slide_and_merge: the first action of the plan is not applied
slide_and_merge_skips_first(self, direction) ==
    LET planned == plan_slide_and_merge(self, direction)
        events == planned.events
        moved == events # <<>>
    IN [moved |-> moved,
        self |-> apply_all(planned.self, IF moved THEN Tail(events) ELSE events)]

\* [moved, self]
slide_and_merge(self, direction) ==
    LET planned == plan_slide_and_merge(self, direction)
        events == planned.events
        moved == events # <<>>
    IN [moved |-> moved, self |-> apply_all(planned.self, events)]

(***************************************************************************)
(* board.rs: Display and FromStr for Board.  A text is a sequence of       *)
(* one-character strings.                                                  *)
(***************************************************************************)
RECURSIVE concat_positions(_, _, _)
concat_positions(self, positions, i) ==
    IF i > Len(positions) THEN <<>>
    ELSE <<value_to_string(get_value(self, positions[i]))>>
             \o concat_positions(self, positions, i + 1)

RECURSIVE concat_lines(_, _, _)
concat_lines(self, lines, l) ==
    IF l > Len(lines) THEN <<>>
    ELSE concat_positions(self, lines[l], 1) \o concat_lines(self, lines, l + 1)

to_string(self) == concat_lines(self, self.traversal_map["Left"], 1)

\* the number of bytes of the UTF-8 encoding of a character: the characters of
\* the inputs are ASCII except for U+00E9 and U+20AC, written by their code points
len_utf8(ch) ==
    CASE ch = "U+00E9" -> 2
      [] ch = "U+20AC" -> 3
      [] OTHER -> 1

\* str::len: the length of a string in bytes
RECURSIVE str_len(_)
str_len(s) == IF s = <<>> THEN 0 ELSE len_utf8(Head(s)) + str_len(Tail(s))

RECURSIVE from_str_loop(_, _, _)
from_str_loop(bd, s, i) ==
    IF i >= Len(s) THEN [ok |-> TRUE, board |-> bd]
    ELSE LET row == i \div 4
             col == i % 4
             parsed == value_from_str(s[i + 1])
         IN IF ~parsed.ok THEN [ok |-> FALSE]
            ELSE from_str_loop(set_value(bd, Position(row, col), parsed.value), s, i + 1)

\* mutant of from_str: the length is not checked
from_str_any_length(s) == from_str_loop(new(4), s, 0)

from_str(s) ==
    IF str_len(s) # 16 THEN [ok |-> FALSE]
    ELSE from_str_loop(new(4), s, 0)

(***************************************************************************)
(* The generator.  ChaCha8Rng is library code; it is modelled as a         *)
(* deterministic generator over RngModulus states whose seed the model     *)
(* does not fix.  gen_range maps a word to an index by the widening        *)
(* multiply, gen_bool(0.9) compares a word with 0.9 of the range.          *)
(***************************************************************************)
RngModulus == 64

next_word(r) == (5 * r + 21) % RngModulus

gen_range(r, len) ==
    LET w == next_word(r) IN [rng |-> w, value |-> (w * len) \div RngModulus]

gen_bool_0_9(r) ==
    LET w == next_word(r) IN [rng |-> w, value |-> (w * 10 < 9 * RngModulus)]

\* mutant of collect_empty: the occupied cells are candidates too
collect_empty_unfiltered(self, positions, i) == SubSeq(positions, i, Len(positions))

RECURSIVE collect_empty(_, _, _)
collect_empty(self, positions, i) ==
    IF i > Len(positions) THEN <<>>
    ELSE (IF get_value(self, positions[i]) = Empty THEN <<positions[i]>> ELSE <<>>)
             \o collect_empty(self, positions, i + 1)

RECURSIVE collect_empty_lines(_, _, _)
collect_empty_lines(self, lines, l) ==
    IF l > Len(lines) THEN <<>>
    ELSE collect_empty(self, lines[l], 1) \o collect_empty_lines(self, lines, l + 1)

\* mutant of has_empty_positions: one empty cell is not enough
has_empty_positions_two(empty_positions) == Len(empty_positions) > 1

\* line 64
has_empty_positions(empty_positions) == empty_positions # <<>>

\* mutant of plan_spawn_random_tile: the index is drawn from a generator whose
\* state depends on how many operations the process has performed
plan_spawn_random_tile_ambient(self, r) ==
    LET empty_positions == collect_empty_lines(self, self.traversal_map["Left"], 1)
    IN IF has_empty_positions(empty_positions) THEN
          LET idx == gen_range((r + steps) % RngModulus, Len(empty_positions))
              coin == gen_bool_0_9(idx.rng)
          IN [action |-> Some(SpawnRandomTile(Tile(Number(IF coin.value THEN 2 ELSE 4),
                                                   empty_positions[idx.value + 1]))),
              rng |-> coin.rng]
       ELSE [action |-> None, rng |-> r]

\* [action: Option<Action>, rng]
plan_spawn_random_tile(self, r) ==
    LET empty_positions == collect_empty_lines(self, self.traversal_map["Left"], 1)
    IN IF has_empty_positions(empty_positions) THEN
          LET idx == gen_range(r, Len(empty_positions))
              rand_position == empty_positions[idx.value + 1]
              coin == gen_bool_0_9(idx.rng)
              rand_value == IF coin.value THEN 2 ELSE 4
              rand_tile == Number(rand_value)
          IN [action |-> Some(SpawnRandomTile(Tile(rand_tile, rand_position))),
              rng |-> coin.rng]
       ELSE [action |-> None, rng |-> r]

(***************************************************************************)
(* Inputs.  CaseTexts are the in_board texts of the test table CASES;      *)
(* PatternTexts lay one line pattern out over the whole board so that      *)
(* every line over InitChars occurs in every direction.                    *)
(***************************************************************************)
CaseTexts ==
    {<<"0", "0", "0", "0", "0", "1", "1", "0", "0", "1", "1", "0", "0", "0", "0", "0">>,
     <<"0", "1", "2", "2", "0", "0", "0", "0", "0", "0", "0", "0", "0", "0", "0", "0">>,
     <<"2", "2", "1", "0", "0", "0", "0", "0", "0", "0", "0", "0", "0", "0", "0", "0">>,
     <<"0", "0", "0", "0", "1", "0", "0", "0", "2", "0", "0", "0", "2", "0", "0", "0">>,
     <<"2", "0", "0", "0", "2", "0", "0", "0", "1", "0", "0", "0", "0", "0", "0", "0">>,
     <<"0", "0", "0", "0", "0", "0", "0", "0", "0", "0", "0", "0", "0", "0", "0", "0">>,
     <<"1", "2", "3", "4", "2", "3", "4", "1", "3", "4", "1", "2", "4", "1", "2", "3">>,
     <<"1", "0", "0", "0", "1", "0", "0", "0", "1", "0", "0", "0", "1", "0", "0", "0">>,
     <<"0", "0", "0", "1", "0", "0", "0", "1", "0", "0", "0", "1", "0", "0", "0", "1">>,
     <<"1", "1", "1", "1", "0", "0", "0", "0", "0", "0", "0", "0", "0", "0", "0", "0">>,
     <<"0", "0", "0", "0", "0", "0", "0", "0", "0", "0", "0", "0", "1", "1", "1", "1">>,
     <<"1", "0", "0", "0", "0", "1", "0", "0", "0", "0", "1", "0", "0", "0", "0", "1">>,
     <<"1", "1", "0", "0", "2", "2", "0", "0", "3", "3", "0", "0", "4", "4", "0", "0">>,
     <<"0", "0", "1", "1", "0", "0", "2", "2", "0", "0", "3", "3", "0", "0", "4", "4">>,
     <<"1", "2", "3", "4", "1", "2", "3", "4", "0", "0", "0", "0", "0", "0", "0", "0">>,
     <<"0", "0", "0", "0", "0", "0", "0", "0", "1", "2", "3", "4", "1", "2", "3", "4">>,
     <<"1", "1", "1", "0", "1", "0", "1", "1", "1", "1", "0", "1", "0", "1", "1", "1">>,
     <<"1", "1", "1", "1", "1", "1", "1", "1", "1", "1", "1", "1", "1", "1", "1", "1">>}

\* the board of setup in main.rs
SetupText == <<"3", "3", "0", "1", "1", "0", "0", "0", "0", "0", "0", "0", "0", "0", "1", "0">>

\* boards near the largest value (one with a line 2 2 4 1024, where a merged
\* tile meets its equal), and a board with a single empty cell
EdgeTexts ==
    {<<"A", "A", "B", "B", "B", "A", "A", "B", "0", "B", "0", "B", "A", "0", "0", "A">>,
     <<"B", "B", "B", "B", "A", "A", "A", "A", "9", "9", "A", "B", "1", "1", "2", "A">>,
     <<"1", "2", "3", "4", "2", "3", "4", "1", "3", "4", "1", "2", "4", "1", "2", "0">>}

\* the board of test_slide_and_merge_line
LineTestText == <<"1", "1", "1", "0", "0", "0", "0", "0", "0", "0", "0", "0", "0", "0", "0", "0">>

InitChars == {Alphabet[e + 1] : e \in (0..MaxInitExp) \cup {10, 11}}

Patterns == [1..4 -> InitChars]

\* row r of the text is p rotated by r, and so is column c: p itself is line 0
\* of Left and of Up, and its reverse is a line of Right and of Down
Layout(p) ==
    [i \in 1..16 |->
        LET row == (i - 1) \div 4
            col == (i - 1) % 4
        IN p[((row + col) % 4) + 1]]

PatternTexts == {Layout(p) : p \in Patterns}

(***************************************************************************)
(* The planner harness (as the tests of board.rs drive the board):         *)
(* plan_slide_and_merge and slide_and_merge on a decoded board.            *)
(***************************************************************************)
\* the frame loop does not run in the harnesses
GameIdle ==
    /\ pc = "none"
    /\ deferred_events = <<>>
    /\ action_events = <<>>
    /\ entities = <<>>
    /\ animating = <<>>
    /\ finishing = {}
    /\ live = {}
    /\ next_entity = 0
    /\ replay = <<>>
    /\ panicked = FALSE
    /\ moves = 0

InitHarness ==
    /\ rng = 0
    /\ GameIdle
    /\ op = "init"
    /\ steps = 0
    /\ in_direction = "Left"
    /\ pre_board = board
    /\ last_plan = <<>>
    /\ prev_plan = None
    /\ last_moved = FALSE
    /\ last_spawn = None
    /\ text = <<>>
    /\ decoded = None
    /\ twin = None
    /\ value_call = None

InitPlan ==
    /\ \E s \in PatternTexts \cup CaseTexts \cup EdgeTexts \cup {SetupText, LineTestText} :
          board = from_str(s).board
    /\ InitHarness

PlanSlideAndMerge(d) ==
    /\ LET r == plan_slide_and_merge(board, d)
       IN /\ board' = r.self
          /\ last_plan' = r.events
    /\ prev_plan' = IF op = "plan" THEN Some(<<in_direction, last_plan>>) ELSE None
    /\ pre_board' = board
    /\ in_direction' = d
    /\ op' = "plan"
    /\ steps' = steps + 1
    /\ UNCHANGED <<rng, game_vars, last_moved, last_spawn, text, decoded, twin, value_call>>

SlideAndMerge(d) ==
    /\ LET r == slide_and_merge(board, d)
       IN /\ board' = r.self
          /\ last_moved' = r.moved
    /\ prev_plan' = IF op = "plan" THEN Some(<<in_direction, last_plan>>) ELSE None
    /\ pre_board' = board
    /\ in_direction' = d
    /\ op' = "move"
    /\ steps' = steps + 1
    /\ UNCHANGED <<rng, game_vars, last_plan, last_spawn, text, decoded, twin, value_call>>

\* as in the tests, the board is planned for any number of times and then moved
NextPlan ==
    \/ steps < MaxSteps /\ op # "move" /\ \E d \in Direction : PlanSlideAndMerge(d)
    \/ steps < MaxSteps /\ op # "move" /\ \E d \in Direction : SlideAndMerge(d)

SpecPlan == InitPlan /\ [][NextPlan]_vars

(***************************************************************************)
(* The classic 2048 move, computed line by line without the planner:       *)
(* compact the non-empty values toward index 0, replace equal neighbours   *)
(* below MAX_TILE_VALUE once by their double from index 0 on, fill the     *)
(* rest with Empty.                                                        *)
(***************************************************************************)
Compact(vs) == SelectSeq(vs, LAMBDA v : v # Empty)

RECURSIVE MergePairs(_)
MergePairs(vs) ==
    IF Len(vs) < 2 THEN vs
    ELSE IF vs[1] = vs[2] /\ vs[1].n < MAX_TILE_VALUE
         THEN <<Number(2 * vs[1].n)>> \o MergePairs(Tail(Tail(vs)))
         ELSE <<vs[1]>> \o MergePairs(Tail(vs))

ClassicLine(vs) ==
    LET merged == MergePairs(Compact(vs))
    IN [i \in 1..Len(vs) |-> IF i <= Len(merged) THEN merged[i] ELSE Empty]

LineValues(bd, line) == [i \in 1..Len(line) |-> bd.tiles[line[i]]]

ClassicTiles(bd, d) ==
    LET lines == bd.traversal_map[d]
    IN [p \in DOMAIN bd.tiles |->
          LET l == CHOOSE l \in 1..Len(lines) : \E i \in 1..Len(lines[l]) : lines[l][i] = p
              i == CHOOSE i \in 1..Len(lines[l]) : lines[l][i] = p
          IN ClassicLine(LineValues(bd, lines[l]))[i]]

\* C1: the plan returned by plan_slide_and_merge, applied in list order to the
\* board it was planned on, gives the classic result of the move (and so does
\* slide_and_merge, which applies that plan).
C1_PlanYieldsClassicResult ==
    /\ op = "plan" => apply_all(pre_board, last_plan).tiles = ClassicTiles(pre_board, in_direction)
    /\ op = "move" => board.tiles = ClassicTiles(pre_board, in_direction)

\* a plan that holds a merge made from a deferred slide, followed by a slide
C1_Witness ==
    /\ op = "plan"
    /\ Len(last_plan) >= 8
    /\ \E i \in 1..Len(last_plan) : last_plan[i].type = "MergeTiles"
                                    /\ last_plan[i].tile1.position # last_plan[i].to
    /\ \E i \in 1..Len(last_plan) : last_plan[i].type = "SlideTile"

(***************************************************************************)
(* Vocabulary of the claims about a plan.                                  *)
(***************************************************************************)
Sources(a) ==
    CASE a.type = "SlideTile" -> {a.tile.position}
      [] a.type = "MergeTiles" -> {a.tile1.position, a.tile2.position}
      [] a.type = "SpawnRandomTile" -> {}

Dest(a) == IF a.type = "SpawnRandomTile" THEN a.tile.position ELSE a.to

AllOnesText == [i \in 1..16 |-> "1"]

PlannedBoard == apply_all(pre_board, last_plan)

\* C3: a call of plan_slide_and_merge leaves the board (cells, size and
\* traversal map) as it was, and a second call on the same board with the same
\* direction returns the list the first call returned.
C3_PlanIsPure ==
    [][op' = "plan" =>
          /\ board' = board
          /\ (op = "plan" /\ in_direction' = in_direction) => last_plan' = last_plan]_vars

\* two plan calls in a row, same direction, on a board that the plan would change
C3_Witness ==
    /\ op = "plan"
    /\ prev_plan # None
    /\ prev_plan[1][1] = in_direction
    /\ Len(last_plan) >= 2
    /\ board = pre_board

\* C5: the destination of a MergeTiles is neither a source nor the destination
\* of any later action of the plan; a line of four equal values v < 2048
\* becomes 2v 2v Empty Empty; the all-2 board moved Left gives 8 actions and
\* the text 2200220022002200.
C5_MergedTileMergesOnce ==
    op = "plan" =>
       /\ \A i \in 1..Len(last_plan) : \A j \in (i + 1)..Len(last_plan) :
             last_plan[i].type = "MergeTiles" =>
                last_plan[i].to \notin (Sources(last_plan[j]) \cup {Dest(last_plan[j])})
       /\ \A l \in 1..pre_board.size :
             LET line == pre_board.traversal_map[in_direction][l]
                 before == LineValues(pre_board, line)
             IN (/\ before[1] # Empty
                 /\ before[1].n < MAX_TILE_VALUE
                 /\ \A i \in 1..Len(line) : before[i] = before[1])
                => LineValues(PlannedBoard, line)
                      = <<Number(2 * before[1].n), Number(2 * before[1].n), Empty, Empty>>
       /\ (to_string(pre_board) = AllOnesText /\ in_direction = "Left")
             => /\ Len(last_plan) = 8
                /\ to_string(PlannedBoard)
                      = <<"2", "2", "0", "0", "2", "2", "0", "0",
                          "2", "2", "0", "0", "2", "2", "0", "0">>

\* the all-2 board planned Left
C5_Witness ==
    /\ op = "plan"
    /\ to_string(pre_board) = AllOnesText
    /\ in_direction = "Left"
    /\ Len(last_plan) = 8

\* C6: every MergeTiles of a plan joins two tiles of the same value v < 2048
\* into Number(2v); tiles of value 2048 are never a source of a merge.
C6_MergeOnlyEqualBelowMax ==
    op = "plan" =>
       \A i \in 1..Len(last_plan) :
          last_plan[i].type = "MergeTiles" =>
             /\ last_plan[i].tile1.value.tag = "Number"
             /\ last_plan[i].tile1.value = last_plan[i].tile2.value
             /\ last_plan[i].tile1.value.n < MAX_TILE_VALUE
             /\ last_plan[i].value = Number(2 * last_plan[i].tile1.value.n)

\* a plan with a merge, for a board where two 2048 tiles are neighbours in a
\* line of the direction and the second of them slides
C6_Witness ==
    /\ op = "plan"
    /\ \E i \in 1..Len(last_plan) : last_plan[i].type = "MergeTiles"
    /\ \E l \in 1..4 : \E i \in 1..3 :
          LET line == pre_board.traversal_map[in_direction][l]
          IN /\ pre_board.tiles[line[i]] = Number(MAX_TILE_VALUE)
             /\ pre_board.tiles[line[i + 1]] = Number(MAX_TILE_VALUE)
             /\ \E k \in 1..Len(last_plan) :
                   /\ last_plan[k].type = "SlideTile"
                   /\ last_plan[k].tile.position = line[i + 1]

\* C7: in a plan no position is the destination of two actions and no
\* position is a source of two actions; the two sources of a merge differ.
\* (Lines of one direction share no position, so this is the per-line claim.)
C7_PlanPartition ==
    op = "plan" =>
       /\ \A i \in 1..Len(last_plan) : \A j \in 1..Len(last_plan) :
             i # j => /\ Dest(last_plan[i]) # Dest(last_plan[j])
                      /\ Sources(last_plan[i]) \cap Sources(last_plan[j]) = {}
       /\ \A i \in 1..Len(last_plan) :
             last_plan[i].type = "MergeTiles" =>
                last_plan[i].tile1.position # last_plan[i].tile2.position

\* a plan where one line gives a merge made from a deferred slide and another action
C7_Witness ==
    /\ op = "plan"
    /\ \E i \in 1..Len(last_plan) : \E j \in 1..Len(last_plan) :
          /\ i # j
          /\ last_plan[i].type = "MergeTiles"
          /\ last_plan[i].tile1.position # last_plan[i].to
          /\ IF in_direction \in {"Left", "Right"}
                THEN Dest(last_plan[i]).row = Dest(last_plan[j]).row
                ELSE Dest(last_plan[i]).col = Dest(last_plan[j]).col

\* C8: slide_and_merge called on the board a plan was just made for, with the
\* same direction, returns true iff that plan is non-empty and leaves the board
\* that applying that plan in order gives.
C8_MovedIffPlanNonEmpty ==
    (op = "move" /\ prev_plan # None /\ prev_plan[1][1] = in_direction) =>
         /\ last_moved = (Len(prev_plan[1][2]) > 0)
         /\ board = apply_all(pre_board, prev_plan[1][2])

\* a move after a plan of exactly one action
C8_Witness ==
    /\ op = "move"
    /\ prev_plan # None
    /\ prev_plan[1][1] = in_direction
    /\ Len(prev_plan[1][2]) = 1
    /\ last_moved

\* C9: the plan is non-empty iff applying it changes the board.
C9_NonEmptyIffBoardChanges ==
    op = "plan" => ((last_plan # <<>>) <=> (PlannedBoard.tiles # pre_board.tiles))

\* a plan of slides only on a board with tiles that stay where they are
C9_Witness ==
    /\ op = "plan"
    /\ last_plan # <<>>
    /\ \A i \in 1..Len(last_plan) : last_plan[i].type = "SlideTile"
    /\ \E p \in DOMAIN pre_board.tiles :
          pre_board.tiles[p] # Empty /\ PlannedBoard.tiles[p] = pre_board.tiles[p]

(***************************************************************************)
(* The board harness: moves and planned spawns applied to a decoded board, *)
(* the turn protocol of the engine in any interleaving.                    *)
(***************************************************************************)
InitBoard ==
    /\ \E s \in CaseTexts \cup EdgeTexts \cup {SetupText} : board = from_str(s).board
    /\ \E seed \in 0..MaxSeed : rng = seed
    /\ GameIdle
    /\ op = "init"
    /\ steps = 0
    /\ in_direction = "Left"
    /\ pre_board = board
    /\ last_plan = <<>>
    /\ prev_plan = None
    /\ last_moved = FALSE
    /\ last_spawn = None
    /\ text = <<>>
    /\ decoded = None
    /\ twin = None
    /\ value_call = None

PlanSpawnRandomTile ==
    /\ LET r == plan_spawn_random_tile(board, rng)
       IN /\ last_spawn' = r.action
          /\ rng' = r.rng
    /\ pre_board' = board
    /\ prev_plan' = None
    /\ op' = "plan_spawn"
    /\ steps' = steps + 1
    /\ UNCHANGED <<board, game_vars, in_direction, last_plan, last_moved, text, decoded, twin, value_call>>

\* the planned spawn is applied to the board it was planned on
ApplySpawn ==
    /\ op = "plan_spawn"
    /\ last_spawn # None
    /\ board' = apply(board, last_spawn[1])
    /\ pre_board' = board
    /\ prev_plan' = None
    /\ op' = "apply_spawn"
    /\ steps' = steps + 1
    /\ UNCHANGED <<rng, game_vars, in_direction, last_plan, last_moved, last_spawn,
                   text, decoded, twin, value_call>>

NextBoard ==
    \/ steps < MaxBoardSteps /\ \E d \in Direction : SlideAndMerge(d)
    \/ steps < MaxBoardSteps /\ PlanSpawnRandomTile
    \/ steps < MaxBoardSteps /\ ApplySpawn

SpecBoard == InitBoard /\ [][NextBoard]_vars

ValidValue(v) ==
    \/ v = Empty
    \/ v.tag = "Number" /\ \E k \in 1..11 : v.n = 2 ^ k

HasNeighbouringMax(bd, d) ==
    \E l \in 1..4 : \E i \in 1..3 :
       /\ bd.tiles[bd.traversal_map[d][l][i]] = Number(MAX_TILE_VALUE)
       /\ bd.tiles[bd.traversal_map[d][l][i + 1]] = Number(MAX_TILE_VALUE)

\* C4: after any sequence of moves and applied planned spawns on a decoded
\* board every cell is Empty or Number(2^k) with 1 <= k <= 11; no cell ever
\* holds 4096.
C4_CellsStayValid ==
    \A p \in DOMAIN board.tiles : ValidValue(board.tiles[p])

\* a move that changed a board on which two 2048 tiles were neighbours in a
\* line of the move, made after a spawn had been applied
C4_Witness ==
    /\ op = "move"
    /\ last_moved
    /\ steps >= 3
    /\ HasNeighbouringMax(pre_board, in_direction)

\* C10: plan_spawn_random_tile returns None iff the board has no Empty cell,
\* and otherwise Some(SpawnRandomTile).
C10_SpawnNoneIffFull ==
    op = "plan_spawn" =>
       /\ (last_spawn = None) <=> (\A p \in DOMAIN board.tiles : board.tiles[p] # Empty)
       /\ last_spawn # None => last_spawn[1].type = "SpawnRandomTile"

\* a spawn planned for a board with exactly one Empty cell
C10_Witness ==
    /\ op = "plan_spawn"
    /\ last_spawn # None
    /\ Cardinality({p \in DOMAIN board.tiles : board.tiles[p] = Empty}) = 1

(***************************************************************************)
(* main.rs: the frame loop.  The systems handle_input, start_animate,      *)
(* update_animations and check_animations run chained, once per frame.     *)
(***************************************************************************)
SetupReplay == <<"Right", "Up", "Right", "Up", "Left", "Up", "Up", "Left", "Up", "Left", "Up", "Up">>

Reverse(q) == [i \in 1..Len(q) |-> q[Len(q) + 1 - i]]

KeyCode == {"ArrowLeft", "ArrowRight", "ArrowUp", "ArrowDown", "Space"}

Timer(a) == [elapsed |-> 0, animation |-> a]

Sliding(entity, tile, to) ==
    [kind |-> "Sliding", entity |-> entity, tile |-> tile, to |-> to]
Merging(entity1, entity2, tile1, tile2, to) ==
    [kind |-> "Merging", entity1 |-> entity1, entity2 |-> entity2,
     tile1 |-> tile1, tile2 |-> tile2, to |-> to]
Spawning(entity, tile) == [kind |-> "Spawning", entity |-> entity, tile |-> tile]

Remove(f, k) == [x \in DOMAIN f \ {k} |-> f[x]]

\* setup: the tiles of the decoded board get an entity each, in row-major
\* order, with a Spawning animation
InitGame ==
    LET bd == from_str(SetupText).board
        occupied == SelectSeq(bd.traversal_map["Left"][1] \o bd.traversal_map["Left"][2]
                                 \o bd.traversal_map["Left"][3] \o bd.traversal_map["Left"][4],
                              LAMBDA pos : get_value(bd, pos) # Empty)
    IN /\ board = bd
       /\ \E seed \in 0..MaxSeed : rng = seed
       /\ pc = "handle_input"
       /\ deferred_events = <<>>
       /\ action_events = <<>>
       /\ entities = [pos \in {occupied[i] : i \in 1..Len(occupied)} |->
                         CHOOSE i \in 1..Len(occupied) : occupied[i] = pos]
       /\ animating = [e \in 1..Len(occupied) |->
                          Timer(Spawning(e, get_tile(bd, occupied[e])))]
       /\ finishing = {}
       /\ live = 1..Len(occupied)
       /\ next_entity = Len(occupied) + 1
       /\ replay = Reverse(SetupReplay)
       /\ panicked = FALSE
       /\ moves = 0
       /\ op = "init"
       /\ steps = 0
       /\ in_direction = "Left"
       /\ pre_board = bd
       /\ last_plan = <<>>
       /\ prev_plan = None
       /\ last_moved = FALSE
       /\ last_spawn = None
       /\ text = <<>>
       /\ decoded = None
       /\ twin = None
       /\ value_call = None

\* lines 388-401: the direction of the key that was just pressed
key_direction(key) ==
    CASE key = "ArrowLeft" -> Some("Left")
      [] key = "ArrowRight" -> Some("Right")
      [] key = "ArrowUp" -> Some("Up")
      [] key = "ArrowDown" -> Some("Down")
      [] key = "Space" -> IF replay # <<>> THEN Some(replay[Len(replay)]) ELSE None
      [] OTHER -> None

\* mutant of handle_input_blocked: the early return is missing
handle_input_blocked_never(events) == FALSE

\* lines 385-387
handle_input_blocked(events) == events # <<>>

\* handle_input with deferred_events non-empty: the early return
HandleInputBlocked ==
    /\ pc = "handle_input"
    /\ ~panicked
    /\ handle_input_blocked(deferred_events)
    /\ pc' = "start_animate"
    /\ UNCHANGED <<board, rng, deferred_events, action_events, entities, animating,
                   finishing, live, next_entity, replay, panicked, moves, harness_vars>>

\* handle_input in a frame without a key press
HandleInputNoKey ==
    /\ pc = "handle_input"
    /\ ~panicked
    /\ ~handle_input_blocked(deferred_events)
    /\ pc' = "start_animate"
    /\ UNCHANGED <<board, rng, deferred_events, action_events, entities, animating,
                   finishing, live, next_entity, replay, panicked, moves, harness_vars>>

\* mutant of handle_input_moved: every key press with a direction counts as a move
handle_input_moved_always(events) == TRUE

\* line 418
handle_input_moved(events) == Len(events) > 0

\* handle_input in a frame in which key was just pressed; the call's direction,
\* plan and planned spawn are recorded for the claims
HandleInput(key) ==
    /\ pc = "handle_input"
    /\ ~panicked
    /\ ~handle_input_blocked(deferred_events)
    /\ LET direction == key_direction(key)
       IN /\ replay' = IF key = "Space" /\ replay # <<>>
                          THEN SubSeq(replay, 1, Len(replay) - 1) ELSE replay
          /\ IF direction = None
                THEN UNCHANGED <<board, rng, deferred_events, action_events, moves,
                                 op, in_direction, pre_board, last_plan, last_moved, last_spawn>>
                ELSE LET events == plan_slide_and_merge(board, direction[1]).events
                         after == apply_all(board, events)
                         was_moved == handle_input_moved(events)
                         planned == plan_spawn_random_tile(after, rng)
                     IN /\ was_moved => moves < MaxMoves
                        /\ action_events' = action_events \o events
                        /\ board' = after
                        /\ moves' = IF was_moved THEN moves + 1 ELSE moves
                        /\ IF was_moved
                              THEN /\ rng' = planned.rng
                                   /\ deferred_events' =
                                         IF planned.action # None
                                            THEN Append(deferred_events, planned.action[1])
                                            ELSE deferred_events
                              ELSE UNCHANGED <<rng, deferred_events>>
                        /\ op' = "handle_input"
                        /\ in_direction' = direction[1]
                        /\ pre_board' = board
                        /\ last_plan' = events
                        /\ last_moved' = was_moved
                        /\ last_spawn' = IF was_moved THEN planned.action ELSE None
    /\ pc' = "start_animate"
    /\ UNCHANGED <<entities, animating, finishing, live, next_entity, panicked,
                   steps, prev_plan, text, decoded, twin, value_call>>

\* start_animate, one iteration of `for action in event_reader.read()`
StartAnimateSlide ==
    /\ pc = "start_animate"
    /\ ~panicked
    /\ action_events # <<>>
    /\ Head(action_events).type = "SlideTile"
    /\ LET action == Head(action_events)
           from == action.tile.position
       IN IF from \notin DOMAIN entities \/ entities[from] \notin live
             THEN /\ panicked' = TRUE     \* unwrap of None, or a command for a despawned entity
                  /\ UNCHANGED animating
             ELSE LET entity == entities[from]
                      tile == get_tile(board, from)
                  IN /\ animating' = (entity :> Timer(Sliding(entity, tile, action.to))) @@ animating
                     /\ UNCHANGED panicked
    /\ action_events' = Tail(action_events)
    /\ UNCHANGED <<board, rng, pc, deferred_events, entities, finishing, live, next_entity,
                   replay, moves, harness_vars>>

StartAnimateMerge ==
    /\ pc = "start_animate"
    /\ ~panicked
    /\ action_events # <<>>
    /\ Head(action_events).type = "MergeTiles"
    /\ LET action == Head(action_events)
           from1 == action.tile1.position
           from2 == action.tile2.position
       IN IF \/ from1 \notin DOMAIN entities
             \/ from2 \notin DOMAIN entities
             \/ entities[from1] \notin live
             \/ entities[from2] \notin live
             THEN /\ panicked' = TRUE
                  /\ UNCHANGED animating
             ELSE LET e1 == entities[from1]
                      e2 == entities[from2]
                      tile1 == get_tile(board, from1)
                      tile2 == get_tile(board, from2)
                      anim == Merging(e1, e2, tile1, tile2, Tile(action.value, action.to))
                  IN /\ animating' = (e2 :> Timer(anim)) @@ (e1 :> Timer(anim)) @@ animating
                     /\ UNCHANGED panicked
    /\ action_events' = Tail(action_events)
    /\ UNCHANGED <<board, rng, pc, deferred_events, entities, finishing, live, next_entity,
                   replay, moves, harness_vars>>

StartAnimateSpawn ==
    /\ pc = "start_animate"
    /\ ~panicked
    /\ action_events # <<>>
    /\ Head(action_events).type = "SpawnRandomTile"
    /\ LET action == Head(action_events)
           entity == next_entity
       IN /\ next_entity' = next_entity + 1
          /\ live' = live \cup {entity}
          /\ animating' = (entity :> Timer(Spawning(entity, action.tile))) @@ animating
          /\ entities' = (action.tile.position :> entity) @@ entities
          /\ board' = apply(board, action)
    /\ action_events' = Tail(action_events)
    /\ UNCHANGED <<rng, pc, deferred_events, finishing, replay, panicked, moves, harness_vars>>

\* every sent action has been read
StartAnimateEnd ==
    /\ pc = "start_animate"
    /\ ~panicked
    /\ action_events = <<>>
    /\ pc' = "update_animations"
    /\ UNCHANGED <<board, rng, deferred_events, action_events, entities, animating, finishing,
                   live, next_entity, replay, panicked, moves, harness_vars>>

\* GameState::move_entity: [entities, panicked]
move_entity(ents, from, to) ==
    IF from \in DOMAIN ents
       THEN [entities |-> (to :> ents[from]) @@ Remove(ents, from), panicked |-> FALSE]
       ELSE [entities |-> ents, panicked |-> TRUE]

Min(a, b) == IF a < b THEN a ELSE b

\* update_animations: every timer is ticked by the frame's delta.  A visit of
\* an entity whose timer has not finished, or whose animation is Spawning,
\* touches that entity only, so these visits are taken at once; the finished
\* slides and merges are visited one by one, in the order of the query.
UpdateAnimationsTick(delta) ==
    /\ pc = "update_animations"
    /\ ~panicked
    /\ LET ticked == [e \in DOMAIN animating |->
                         [animating[e] EXCEPT !.elapsed = Min(@ + delta, AnimFrames)]]
           finished == {e \in DOMAIN ticked : ticked[e].elapsed >= AnimFrames}
           spawned == {e \in finished : ticked[e].animation.kind = "Spawning"}
       IN /\ animating' = [e \in DOMAIN ticked \ spawned |-> ticked[e]]
          /\ finishing' = finished \ spawned
          /\ pc' = IF finished \ spawned = {} THEN "check_animations" ELSE "update_animations_finished"
    /\ UNCHANGED <<board, rng, deferred_events, action_events, entities, live, next_entity,
                   replay, panicked, moves, harness_vars>>

\* lines 608-653 for a finished slide
FinishSliding(e) ==
    /\ pc = "update_animations_finished"
    /\ ~panicked
    /\ e \in finishing
    /\ animating[e].animation.kind = "Sliding"
    /\ LET anim == animating[e].animation
           r == move_entity(entities, anim.tile.position, anim.to)
       IN /\ entities' = r.entities
          /\ panicked' = r.panicked
    /\ animating' = Remove(animating, e)
    /\ finishing' = finishing \ {e}
    /\ pc' = IF finishing \ {e} = {} THEN "check_animations" ELSE pc
    /\ UNCHANGED <<board, rng, deferred_events, action_events, live, next_entity, replay,
                   moves, harness_vars>>

\* lines 608-653 for a finished merge: the target entity moves, the other is despawned
FinishMerging(e) ==
    /\ pc = "update_animations_finished"
    /\ ~panicked
    /\ e \in finishing
    /\ animating[e].animation.kind = "Merging"
    /\ LET anim == animating[e].animation
           is_target == e = anim.entity1
           r == move_entity(entities, anim.tile1.position, anim.to.position)
       IN IF is_target
             THEN /\ entities' = r.entities
                  /\ panicked' = r.panicked
                  /\ UNCHANGED live
             ELSE /\ entities' = Remove(entities, anim.tile2.position)
                  /\ live' = live \ {anim.entity2}
                  /\ UNCHANGED panicked
    /\ animating' = Remove(animating, e)
    /\ finishing' = finishing \ {e}
    /\ pc' = IF finishing \ {e} = {} THEN "check_animations" ELSE pc
    /\ UNCHANGED <<board, rng, deferred_events, action_events, next_entity, replay,
                   moves, harness_vars>>

\* mutant of check_animations_busy: the early return is missing
check_animations_busy_never(timers) == FALSE

\* lines 436-438: some entity carries an Animating component
check_animations_busy(timers) == DOMAIN timers # {}

CheckAnimations ==
    /\ pc = "check_animations"
    /\ ~panicked
    /\ IF check_animations_busy(animating)
          THEN UNCHANGED <<action_events, deferred_events>>
          ELSE IF deferred_events # <<>>
                  THEN /\ action_events' = action_events \o deferred_events
                       /\ deferred_events' = <<>>
                  ELSE UNCHANGED <<action_events, deferred_events>>
    /\ pc' = "handle_input"
    /\ UNCHANGED <<board, rng, entities, animating, finishing, live, next_entity, replay,
                   panicked, moves, harness_vars>>

Next ==
    \/ HandleInputBlocked
    \/ HandleInputNoKey
    \/ \E key \in KeyCode : HandleInput(key)
    \/ StartAnimateSlide
    \/ StartAnimateMerge
    \/ StartAnimateSpawn
    \/ StartAnimateEnd
    \/ \E delta \in 1..AnimFrames : UpdateAnimationsTick(delta)
    \/ \E e \in finishing : FinishSliding(e)
    \/ \E e \in finishing : FinishMerging(e)
    \/ CheckAnimations

Spec == InitGame /\ [][Next]_vars

\* C2: the turn protocol: the spawn planned after a move is applied to the
\* board before any later move is planned or applied.  When start_animate is
\* about to apply a SpawnRandomTile, no move has been planned and applied since
\* the spawn was sent (no SlideTile or MergeTiles waits behind it), and the
\* spawn's target is Empty on the board.
C2_SpawnTargetsEmptyCell ==
    (/\ pc = "start_animate"
     /\ action_events # <<>>
     /\ Head(action_events).type = "SpawnRandomTile")
    => /\ \A i \in 1..Len(action_events) : action_events[i].type = "SpawnRandomTile"
       /\ get_value(board, Head(action_events).tile.position) = Empty

(***************************************************************************)
(* Claims about plan_spawn_random_tile.                                    *)
(***************************************************************************)
\* the grid positions in row-major order
RowMajor(size) == [i \in 1..(size * size) |-> Position((i - 1) \div size, (i - 1) % size)]

EmptyCells(bd) == SelectSeq(RowMajor(bd.size), LAMBDA p : bd.tiles[p] = Empty)

\* C11: a SpawnRandomTile returned by plan_spawn_random_tile names a position
\* that is Empty on the board it was planned on and the value 2 or 4; the
\* position is the k-th Empty cell in row-major order, k being the index the
\* generator draws from its state before the call; with one Empty cell the
\* spawn targets that cell.
C11_SpawnPicksDrawnEmptyCell ==
    [][(op' = "plan_spawn" /\ steps' = steps + 1 /\ last_spawn' # None) =>
          LET cells == EmptyCells(board)
              k == gen_range(rng, Len(cells)).value
              tile == last_spawn'[1].tile
          IN /\ last_spawn'[1].type = "SpawnRandomTile"
             /\ get_value(board, tile.position) = Empty
             /\ tile.value \in {Number(2), Number(4)}
             /\ k \in 0..(Len(cells) - 1)
             /\ tile.position = cells[k + 1]
             /\ Len(cells) = 1 => tile.position = cells[1]]_vars

\* a planned spawn of a 4 on a cell that is not the first Empty cell
C11_Witness ==
    /\ op = "plan_spawn"
    /\ last_spawn # None
    /\ last_spawn[1].tile.value = Number(4)
    /\ Len(EmptyCells(board)) >= 3
    /\ last_spawn[1].tile.position # EmptyCells(board)[1]

(***************************************************************************)
(* Two runs of the engine.  The first run performs an operation on board   *)
(* and rng; the second run, which started from an equal board with its     *)
(* generator in an equal state, then performs the same operation on its    *)
(* own board and generator.                                                *)
(***************************************************************************)
MaxTwinSteps == 3     \* operations per run of the two-run harness

InitTwin ==
    /\ \E s \in CaseTexts \cup EdgeTexts \cup {SetupText} : board = from_str(s).board
    /\ \E seed \in 0..MaxSeed : rng = seed
    /\ GameIdle
    /\ op = "init"
    /\ steps = 0
    /\ in_direction = "Left"
    /\ pre_board = board
    /\ last_plan = <<>>
    /\ prev_plan = None
    /\ last_moved = FALSE
    /\ last_spawn = None
    /\ text = <<>>
    /\ decoded = None
    /\ twin = Some([board |-> board, rng |-> rng, last_spawn |-> None, count |-> 0])
    /\ value_call = None

\* the second run has performed every operation the first run has
TwinCaughtUp == twin[1].count = steps

TwinSlideAndMerge ==
    /\ ~TwinCaughtUp
    /\ op = "move"
    /\ twin' = Some([twin[1] EXCEPT !.board = slide_and_merge(@, in_direction).self,
                                    !.count = @ + 1])
    /\ UNCHANGED <<board, rng, game_vars, op, steps, in_direction, pre_board, last_plan,
                   prev_plan, last_moved, last_spawn, text, decoded, value_call>>

TwinPlanSpawnRandomTile ==
    /\ ~TwinCaughtUp
    /\ op = "plan_spawn"
    /\ LET r == plan_spawn_random_tile(twin[1].board, twin[1].rng)
       IN twin' = Some([twin[1] EXCEPT !.last_spawn = r.action,
                                       !.rng = r.rng,
                                       !.count = @ + 1])
    /\ UNCHANGED <<board, rng, game_vars, op, steps, in_direction, pre_board, last_plan,
                   prev_plan, last_moved, last_spawn, text, decoded, value_call>>

TwinApplySpawn ==
    /\ ~TwinCaughtUp
    /\ op = "apply_spawn"
    /\ twin[1].last_spawn # None
    /\ twin' = Some([twin[1] EXCEPT !.board = apply(@, twin[1].last_spawn[1]),
                                    !.count = @ + 1])
    /\ UNCHANGED <<board, rng, game_vars, op, steps, in_direction, pre_board, last_plan,
                   prev_plan, last_moved, last_spawn, text, decoded, value_call>>

NextTwin ==
    \/ steps < MaxTwinSteps /\ TwinCaughtUp /\ \E d \in Direction : SlideAndMerge(d)
    \/ steps < MaxTwinSteps /\ TwinCaughtUp /\ PlanSpawnRandomTile
    \/ steps < MaxTwinSteps /\ TwinCaughtUp /\ ApplySpawn
    \/ TwinSlideAndMerge
    \/ TwinPlanSpawnRandomTile
    \/ TwinApplySpawn

SpecTwin == InitTwin /\ [][NextTwin]_vars

C13_SpawnPlannedOnlyAfterMove ==
    [][pc = "handle_input" =>
          /\ (rng' # rng \/ deferred_events' # deferred_events) =>
                /\ op' = "handle_input"
                /\ last_plan' = plan_slide_and_merge(board, in_direction').events
                /\ last_plan' # <<>>
                /\ board' = apply_all(board, last_plan')
                /\ last_spawn' = plan_spawn_random_tile(board', rng).action
                /\ deferred_events' = deferred_events \o last_spawn'
          /\ \A key \in KeyCode :
                (/\ HandleInput(key)
                 /\ key_direction(key) # None
                 /\ plan_slide_and_merge(board, key_direction(key)[1]).events = <<>>)
                => /\ UNCHANGED <<board, rng, deferred_events, action_events>>
                   /\ last_spawn' = None]_vars

\* a key was pressed whose plan was empty, after an earlier move
C13_Witness ==
    /\ pc = "start_animate"
    /\ op = "handle_input"
    /\ last_plan = <<>>
    /\ ~last_moved
    /\ moves >= 1
    /\ deferred_events = <<>>

(***************************************************************************)
(* The text harness: strings are decoded, and decoded boards are moved,    *)
(* given spawns and encoded.                                               *)
(***************************************************************************)
MaxTextLen == 17      \* the input strings have 0..MaxTextLen characters
MaxTextSteps == 4     \* operations per behaviour of the text harness

\* the board of test_board_serialization
SerializationText ==
    <<"1", "2", "3", "4", "5", "6", "7", "8", "9", "A", "0", "0", "0", "0", "0", "0">>

\* strings over the alphabet of every length up to MaxTextLen
LengthTexts ==
    {SubSeq(SerializationText \o SerializationText, 1, n) : n \in 0..MaxTextLen}

BadChars == {"a", "b", "C", "G", " ", "U+00E9"}

\* one character outside the alphabet at any place of a string of 16 or 17 characters
BadCharTexts ==
    {[SetupText EXCEPT ![i] = ch] : i \in 1..16, ch \in BadChars}
       \cup {[Append(SetupText, "0") EXCEPT ![i] = ch] : i \in {1, 17}, ch \in BadChars}

\* strings of 16 bytes that have fewer than 16 characters
MultiByteTexts ==
    {Append(SubSeq(SerializationText, 1, 14), "U+00E9"),
     <<"U+00E9">> \o SubSeq(SerializationText, 1, 14),
     Append(SubSeq(SerializationText, 1, 13), "U+20AC"),
     <<"U+00E9", "U+00E9", "U+00E9", "U+00E9", "U+00E9", "U+00E9", "U+00E9", "U+00E9">>}

TextInputs ==
    CaseTexts \cup EdgeTexts \cup {SetupText, SerializationText}
       \cup LengthTexts \cup BadCharTexts \cup MultiByteTexts

InitText ==
    /\ text \in TextInputs
    /\ board = new(4)
    /\ rng = 0
    /\ GameIdle
    /\ op = "init"
    /\ steps = 0
    /\ in_direction = "Left"
    /\ pre_board = board
    /\ last_plan = <<>>
    /\ prev_plan = None
    /\ last_moved = FALSE
    /\ last_spawn = None
    /\ decoded = None
    /\ twin = None
    /\ value_call = None

\* text.parse::<Board>(): on Ok the board under test is the decoded board
FromStrBoard ==
    /\ LET r == from_str(text)
       IN /\ decoded' = Some(r)
          /\ board' = IF r.ok THEN r.board ELSE board
    /\ pre_board' = board
    /\ prev_plan' = None
    /\ op' = "from_str"
    /\ steps' = steps + 1
    /\ UNCHANGED <<rng, game_vars, in_direction, last_plan, last_moved, last_spawn, text, twin, value_call>>

\* board.to_string()
ToStringBoard ==
    /\ text' = to_string(board)
    /\ pre_board' = board
    /\ prev_plan' = None
    /\ op' = "to_string"
    /\ steps' = steps + 1
    /\ UNCHANGED <<board, rng, game_vars, in_direction, last_plan, last_moved, last_spawn,
                   decoded, twin, value_call>>

\* a string has been decoded into the board under test
HasBoard == decoded # None /\ decoded[1].ok

NextText ==
    \/ steps < MaxTextSteps /\ FromStrBoard
    \/ steps < MaxTextSteps /\ HasBoard /\ ToStringBoard
    \/ steps < MaxTextSteps /\ HasBoard /\ \E d \in Direction : SlideAndMerge(d)
    \/ steps < MaxTextSteps /\ HasBoard /\ PlanSpawnRandomTile
    \/ steps < MaxTextSteps /\ HasBoard /\ ApplySpawn

SpecText == InitText /\ [][NextText]_vars

AlphabetChars == {Alphabet[i] : i \in 1..Len(Alphabet)}

\* 16 characters, each of the alphabet 0123456789AB
WellFormed(s) == Len(s) = 16 /\ \A i \in 1..Len(s) : s[i] \in AlphabetChars

\* C14: for every board reached by moves and spawns from a decoded board,
\* decoding its text gives a board with equal cells and encoding that board
\* gives the same 16-character text; and a string of 16 characters of the
\* alphabet decodes to a board whose text is that string.
C14_TextRoundTrip ==
    /\ HasBoard =>
          LET t == to_string(board)
              r == from_str(t)
          IN /\ Len(t) = 16
             /\ r.ok
             /\ r.board.tiles = board.tiles
             /\ to_string(r.board) = t
    /\ op = "to_string" => text = to_string(pre_board) /\ from_str(text).board.tiles = board.tiles
    /\ (op = "from_str" /\ WellFormed(text)) => decoded[1].ok /\ to_string(board) = text

\* the text of a board with a 2048 tile that was moved and given a spawn
C14_Witness ==
    /\ HasBoard
    /\ op = "apply_spawn"
    /\ last_moved
    /\ board.tiles # pre_board.tiles
    /\ \E p \in DOMAIN board.tiles : board.tiles[p] = Number(MAX_TILE_VALUE)

\* C15: decoding fails, and returns no board, when the string does not have 16
\* characters or has a character outside the alphabet 0123456789AB; it
\* succeeds for every other string.
C15_DecodeFailsOnMalformed ==
    op = "from_str" =>
       /\ decoded[1].ok <=> WellFormed(text)
       /\ ~decoded[1].ok => (DOMAIN decoded[1] = {"ok"} /\ board = pre_board)
       /\ decoded[1].ok => board = decoded[1].board

\* a failed decoding of 16 characters of which only the last is outside the alphabet
C15_Witness ==
    /\ op = "from_str"
    /\ ~decoded[1].ok
    /\ Len(text) = 16
    /\ text[16] \notin AlphabetChars
    /\ \A i \in 1..15 : text[i] \in AlphabetChars

(***************************************************************************)
(* The grid harness: boards of every size from 1 to MaxSize are            *)
(* constructed, filled through set_value and moved.                        *)
(***************************************************************************)
MaxSize == 4          \* the grid sizes are 1..MaxSize
MaxGridSteps == 2     \* operations per behaviour of the grid harness

GridValues == {Number(2)}

InitGrid ==
    /\ \E size \in 1..MaxSize : board = new(size)
    /\ InitHarness

SetValue(p, value) ==
    /\ board' = set_value(board, p, value)
    /\ pre_board' = board
    /\ prev_plan' = None
    /\ op' = "set_value"
    /\ steps' = steps + 1
    /\ UNCHANGED <<rng, game_vars, in_direction, last_plan, last_moved, last_spawn,
                   text, decoded, twin, value_call>>

NextGrid ==
    \/ steps < MaxGridSteps /\ \E p \in DOMAIN board.tiles : \E v \in GridValues : SetValue(p, v)
    \/ steps < MaxGridSteps /\ \E d \in Direction : SlideAndMerge(d)

SpecGrid == InitGrid /\ [][NextGrid]_vars

Grid(n) == {Position(r, c) : r \in 0..(n - 1), c \in 0..(n - 1)}

\* C16: for each direction the traversal map of a board of size N has N lines
\* of N positions; every grid position occurs in exactly one line at exactly
\* one index and no other position occurs; a line is one full row for Left and
\* Right and one full column for Up and Down.
C16_TraversalPartitionsGrid ==
    LET n == board.size
    IN \A d \in Direction :
          LET lines == board.traversal_map[d]
          IN /\ Len(lines) = n
             /\ \A l \in 1..n : Len(lines[l]) = n
             /\ \A l \in 1..n : \A i \in 1..n : lines[l][i] \in Grid(n)
             /\ \A p \in Grid(n) :
                   Cardinality({li \in (1..n) \X (1..n) : lines[li[1]][li[2]] = p}) = 1
             /\ \A l \in 1..n :
                   IF d \in {"Left", "Right"}
                      THEN /\ \A i \in 1..n : lines[l][i].row = lines[l][1].row
                           /\ {lines[l][i].col : i \in 1..n} = 0..(n - 1)
                      ELSE /\ \A i \in 1..n : lines[l][i].col = lines[l][1].col
                           /\ {lines[l][i].row : i \in 1..n} = 0..(n - 1)

\* a board of one cell whose cell was set
C16_Witness ==
    /\ board.size = 1
    /\ op = "set_value"
    /\ board.tiles[Position(0, 0)] # Empty

\* C17: line i index j of the traversal map is (i, j) for Left, (i, N-1-j) for
\* Right, (j, i) for Up and (N-1-j, i) for Down; index 0 of a line lies on the
\* edge the tiles compact toward; the Right line is the reverse of the Left
\* line and the Down line the reverse of the Up line.
C17_TraversalIndexMapping ==
    LET n == board.size
        map == board.traversal_map
    IN /\ \A i \in 0..(n - 1) : \A j \in 0..(n - 1) :
             /\ map["Left"][i + 1][j + 1] = Position(i, j)
             /\ map["Right"][i + 1][j + 1] = Position(i, n - 1 - j)
             /\ map["Up"][i + 1][j + 1] = Position(j, i)
             /\ map["Down"][i + 1][j + 1] = Position(n - 1 - j, i)
       /\ \A l \in 1..n :
             /\ map["Left"][l][1].col = 0
             /\ map["Right"][l][1].col = n - 1
             /\ map["Up"][l][1].row = 0
             /\ map["Down"][l][1].row = n - 1
             /\ map["Right"][l] = Reverse(map["Left"][l])
             /\ map["Down"][l] = Reverse(map["Up"][l])

\* a board of size 3 on which a move Down has compacted a tile to the bottom row
C17_Witness ==
    /\ board.size = 3
    /\ op = "move"
    /\ in_direction = "Down"
    /\ last_moved
    /\ \E c \in 0..2 : board.tiles[Position(2, c)] # Empty /\ pre_board.tiles[Position(2, c)] = Empty

(***************************************************************************)
(* Claims about apply and the cell mapping.                                *)
(***************************************************************************)
ActionValue(a) == IF a.type = "MergeTiles" THEN a.value ELSE a.tile.value

\* the board after an action, cell by cell: the destination holds the action's
\* value, the other source positions are Empty, the rest is as before
ExpectedApply(bd, a) ==
    [size |-> bd.size,
     tiles |-> [p \in DOMAIN bd.tiles |->
                  IF p = Dest(a) THEN ActionValue(a)
                  ELSE IF p \in Sources(a) THEN Empty
                  ELSE bd.tiles[p]],
     traversal_map |-> bd.traversal_map]

RECURSIVE ExpectedApplyAll(_, _)
ExpectedApplyAll(bd, as) ==
    IF as = <<>> THEN bd ELSE ExpectedApplyAll(ExpectedApply(bd, Head(as)), Tail(as))

\* C18: apply changes only the positions the action names: a spawn sets its
\* position to its value, a slide empties the source and sets the destination,
\* a merge empties both sources and then sets the destination to the merged
\* value, also when the destination is one of the sources; the other cells,
\* the size and the traversal map stay.
C18_ApplyFrame ==
    /\ op = "move" =>
          LET plan == plan_slide_and_merge(pre_board, in_direction).events
          IN /\ board = ExpectedApplyAll(pre_board, plan)
             /\ \A i \in 1..Len(plan) :
                   LET before == apply_all(pre_board, SubSeq(plan, 1, i - 1))
                   IN apply(before, plan[i]) = ExpectedApply(before, plan[i])
    /\ op = "apply_spawn" => board = ExpectedApply(pre_board, last_spawn[1])

\* a move whose plan merges two tiles onto the position of one of them
C18_Witness ==
    /\ op = "move"
    /\ \E a \in {plan_slide_and_merge(pre_board, in_direction).events[i] :
                  i \in 1..Len(plan_slide_and_merge(pre_board, in_direction).events)} :
          a.type = "MergeTiles" /\ a.to \in Sources(a)

\* C19: after decoding and after any sequence of planned actions passed to
\* apply the cell mapping has an entry for exactly the size*size grid
\* positions.
C19_CellDomainIsGrid ==
    /\ board.size = 4
    /\ DOMAIN board.tiles = Grid(board.size)
    /\ DOMAIN pre_board.tiles = Grid(pre_board.size)

\* a move with a merge, made after a spawn was applied: cells were set to Empty
C19_Witness ==
    /\ op = "move"
    /\ steps >= 3
    /\ Cardinality({p \in DOMAIN board.tiles : board.tiles[p] = Empty})
          > Cardinality({p \in DOMAIN pre_board.tiles : pre_board.tiles[p] = Empty})

(***************************************************************************)
(* Claims about boards without a move.                                     *)
(***************************************************************************)
AllEmptyText == [i \in 1..16 |-> "0"]

FullText ==
    <<"1", "2", "3", "4", "2", "3", "4", "1", "3", "4", "1", "2", "4", "1", "2", "3">>

\* every line of direction d has its tiles packed at index 0 and no two
\* neighbouring equal values below 2048
NoMovePossible(bd, d) ==
    \A l \in 1..bd.size :
       LET vs == LineValues(bd, bd.traversal_map[d][l])
       IN \A i \in 1..(Len(vs) - 1) :
             /\ vs[i] = Empty => vs[i + 1] = Empty
             /\ ~(vs[i] # Empty /\ vs[i] = vs[i + 1] /\ vs[i].n < MAX_TILE_VALUE)

\* C20: in a direction in which no move is possible the plan is empty, moved
\* is false and the text of the board is unchanged; this is so in every
\* direction for the all-empty board and for the full board 1234234134124123.
C20_NoMoveGivesEmptyPlan ==
    LET still == \/ NoMovePossible(pre_board, in_direction)
                 \/ to_string(pre_board) \in {AllEmptyText, FullText}
    IN /\ (op = "plan" /\ still) => last_plan = <<>> /\ to_string(board) = to_string(pre_board)
       /\ (op = "move" /\ still) => ~last_moved /\ to_string(board) = to_string(pre_board)

\* a move on a full board with neighbouring 2048 tiles, planned before
C20_Witness ==
    /\ op = "move"
    /\ prev_plan # None
    /\ prev_plan[1] = <<in_direction, <<>> >>
    /\ NoMovePossible(pre_board, in_direction)
    /\ HasNeighbouringMax(pre_board, in_direction)
    /\ \E p \in DOMAIN pre_board.tiles : pre_board.tiles[p] = Number(1024)

(***************************************************************************)
(* The value harness: Value::merge is called on every pair of values with  *)
(* numbers up to MaxOperand.                                               *)
(***************************************************************************)
MaxOperand == 12      \* the numbers of the operands are 1..MaxOperand

ValueInputs == {Empty} \cup {Number(n) : n \in 1..MaxOperand}

InitValue ==
    /\ \E a \in ValueInputs : \E b \in ValueInputs :
          value_call = Some([self |-> a, other |-> b, result |-> None])
    /\ board = new(4)
    /\ rng = 0
    /\ GameIdle
    /\ op = "init"
    /\ steps = 0
    /\ in_direction = "Left"
    /\ pre_board = board
    /\ last_plan = <<>>
    /\ prev_plan = None
    /\ last_moved = FALSE
    /\ last_spawn = None
    /\ text = <<>>
    /\ decoded = None
    /\ twin = None

\* self.merge(other)
Merge ==
    /\ value_call[1].result = None
    /\ value_call' = Some([value_call[1] EXCEPT
                              !.result = Some(merge(value_call[1].self, value_call[1].other))])
    /\ op' = "merge"
    /\ steps' = steps + 1
    /\ UNCHANGED <<board, rng, game_vars, in_direction, pre_board, last_plan, prev_plan,
                   last_moved, last_spawn, text, decoded, twin>>

NextValue == Merge

SpecValue == InitValue /\ [][NextValue]_vars

\* C24: Value::merge(a, b) is b when a is Empty, Number(a + b) when both are
\* numbers, equal or not (merge(Number(2), Number(4)) = Number(6)), and a when
\* a is a number and b is Empty.
C24_MergeAddsWithoutCheck ==
    op = "merge" =>
       LET a == value_call[1].self
           b == value_call[1].other
           result == value_call[1].result[1]
       IN /\ a = Empty => result = b
          /\ (a # Empty /\ b # Empty) => result = [tag |-> "Number", n |-> a.n + b.n]
          /\ (a # Empty /\ b = Empty) => result = a
          /\ (a = [tag |-> "Number", n |-> 2] /\ b = [tag |-> "Number", n |-> 4])
                => result = [tag |-> "Number", n |-> 6]

\* the merge of Number(2) and Number(4) has returned
C24_Witness ==
    /\ op = "merge"
    /\ value_call[1].self = Number(2)
    /\ value_call[1].other = Number(4)
    /\ value_call[1].result # None

(***************************************************************************)
(* Vocabulary of the claims about the scan of one line.                    *)
(***************************************************************************)
Range(s) == {s[i] : i \in 1..Len(s)}

\* the index, counted from 0, of position p in a line
IndexIn(line, p) == (CHOOSE i \in 1..Len(line) : line[i] = p) - 1

\* the actions of a plan that land in a line, in the order of the plan
LineActions(events, line) == SelectSeq(events, LAMBDA a : Dest(a) \in Range(line))

\* the locals of slide_and_merge_line after the first k iterations of its loop
RECURSIVE ScanPrefix(_, _, _)
ScanPrefix(self, line, k) ==
    IF k = 0 THEN line_init(self)
    ELSE line_step(ScanPrefix(self, line, k - 1), line, k - 1)

SlideMergeLeftText ==
    <<"0", "1", "2", "2", "0", "0", "0", "0", "0", "0", "0", "0", "0", "0", "0", "0">>

\* C21: for the board 0122000000000000 and Left the plan is the slide of the 2
\* from (0,1) to (0,0) followed by the merge of the 4 at (0,2) and the 4 at
\* (0,3) into an 8 at (0,1), and applying it gives 1300000000000000.
C21_SlideThenMergeLeft ==
    (to_string(pre_board) = SlideMergeLeftText /\ in_direction = "Left") =>
       /\ op = "plan" =>
             /\ last_plan =
                   <<[type |-> "SlideTile",
                      tile |-> [value |-> Number(2), position |-> Position(0, 1)],
                      to |-> Position(0, 0)],
                     [type |-> "MergeTiles",
                      tile1 |-> [value |-> Number(4), position |-> Position(0, 2)],
                      tile2 |-> [value |-> Number(4), position |-> Position(0, 3)],
                      to |-> Position(0, 1),
                      value |-> Number(8)]>>
             /\ to_string(PlannedBoard)
                   = <<"1", "3", "0", "0", "0", "0", "0", "0",
                       "0", "0", "0", "0", "0", "0", "0", "0">>
       /\ op = "move" =>
             to_string(board) = <<"1", "3", "0", "0", "0", "0", "0", "0",
                                  "0", "0", "0", "0", "0", "0", "0", "0">>

\* the plan of the board 0122000000000000 for Left
C21_Witness ==
    /\ op = "plan"
    /\ to_string(pre_board) = SlideMergeLeftText
    /\ in_direction = "Left"
    /\ Len(last_plan) = 2

\* C22: for a line Empty v v v with v < 2048 the actions of the line are the
\* merge of the tiles at index 1 and 2 into 2v at index 0 followed by the
\* slide of the tile at index 3 to index 1; 1110000000000000 moved Right gives
\* 0012000000000000 and moved = true.
C22_ThreeEqualTiles ==
    /\ op = "plan" =>
          \A l \in 1..pre_board.size :
             LET line == pre_board.traversal_map[in_direction][l]
                 before == LineValues(pre_board, line)
                 v == before[2]
             IN (/\ Len(line) = 4
                 /\ before[1] = Empty
                 /\ v # Empty
                 /\ v.n < MAX_TILE_VALUE
                 /\ before[3] = v
                 /\ before[4] = v)
                => LineActions(last_plan, line)
                      = <<[type |-> "MergeTiles",
                           tile1 |-> [value |-> v, position |-> line[2]],
                           tile2 |-> [value |-> v, position |-> line[3]],
                           to |-> line[1],
                           value |-> Number(2 * v.n)],
                          [type |-> "SlideTile",
                           tile |-> [value |-> v, position |-> line[4]],
                           to |-> line[2]]>>
    /\ (to_string(pre_board) = LineTestText /\ in_direction = "Right") =>
          /\ op = "plan" =>
                /\ Len(last_plan) = 2
                /\ to_string(PlannedBoard)
                      = <<"0", "0", "1", "2", "0", "0", "0", "0",
                          "0", "0", "0", "0", "0", "0", "0", "0">>
          /\ op = "move" =>
                /\ last_moved
                /\ to_string(board)
                      = <<"0", "0", "1", "2", "0", "0", "0", "0",
                          "0", "0", "0", "0", "0", "0", "0", "0">>

\* the plan of the board 1110000000000000 for Right
C22_Witness ==
    /\ op = "plan"
    /\ to_string(pre_board) = LineTestText
    /\ in_direction = "Right"
    /\ last_plan # <<>>
    /\ last_plan[1].type = "MergeTiles"

\* the scan of a line is safe from iteration k on: before each iteration
\* focus_idx is at most the index of the cell scanned and every position the
\* iteration looks up is a cell of the board; at the end every tile of the line
\* was given a slot or was merged into the tile before it
RECURSIVE ScanSafeFrom(_, _, _, _)
ScanSafeFrom(bd, st, line, k) ==
    IF k < Len(line)
       THEN /\ st.focus_idx <= k
            /\ line[st.focus_idx + 1] \in DOMAIN st.board_clone.tiles
            /\ line[k + 1] \in DOMAIN st.board_clone.tiles
            /\ st.prev # None =>
                  /\ st.prev[1][1] < k
                  /\ line[st.prev[1][1] + 1] \in DOMAIN st.board_clone.tiles
            /\ ScanSafeFrom(bd, line_step(st, line, k), line, k + 1)
       ELSE LET merges == Len(SelectSeq(st.events, LAMBDA a : a.type = "MergeTiles"))
            IN /\ k = Len(line)
               /\ st.focus_idx <= Len(line)
               /\ st.focus_idx + merges
                     = Cardinality({i \in 1..Len(line) : bd.tiles[line[i]] # Empty})

ScanSafe(bd, d) ==
    /\ d \in DOMAIN bd.traversal_map
    /\ \A l \in 1..Len(bd.traversal_map[d]) :
          ScanSafeFrom(bd, line_init(bd), bd.traversal_map[d][l], 0)

\* C23: for every board whose cells are all present and valid, and every
\* direction, the scan of each line visits its N positions once with
\* focus_idx never above the index of the cell scanned, every lookup finds its
\* cell, and plan_slide_and_merge returns a list.
C23_PlanIsTotal ==
    /\ op = "init" => \A d \in Direction : ScanSafe(board, d)
    /\ op # "init" => ScanSafe(pre_board, in_direction)
    /\ op = "plan" => Len(last_plan) <= pre_board.size * pre_board.size

\* a plan was returned for a board with a line in which a merge left
\* focus_idx behind the scanned index
C23_Witness ==
    /\ op = "plan"
    /\ \E l \in 1..pre_board.size :
          LET line == pre_board.traversal_map[in_direction][l]
              st == ScanPrefix(pre_board, line, Len(line))
          IN /\ st.focus_idx = 2
             /\ \A i \in 1..Len(line) : pre_board.tiles[line[i]] # Empty
             /\ \E a \in Range(last_plan) : a.type = "MergeTiles" /\ a.to = line[1]

(***************************************************************************)
(* The text encoding of a cell.                                            *)
(***************************************************************************)
\* the 12 values a cell can hold
CellValues == {Empty} \cup {Number(2 ^ k) : k \in 1..11}

\* 0 for Empty and k for Number(2^k)
ExponentOf(v) == IF v = Empty THEN 0 ELSE CHOOSE k \in 1..11 : 2 ^ k = v.n

\* C25: the character of a cell in the text of a board is the character at
\* index to_exponent(value) of 0123456789AB, where to_exponent is 0 for Empty
\* and k for Number(2^k); encoding and decoding are inverse on the 12 values
\* and the 12 characters; the text lists the cells row by row.
C25_CellEncoding ==
    /\ HasBoard =>
          LET t == to_string(board)
          IN \A r \in 0..3 : \A c \in 0..3 :
                LET v == board.tiles[Position(r, c)]
                    ch == t[4 * r + c + 1]
                IN /\ v \in CellValues
                   /\ to_exponent(v) = ExponentOf(v)
                   /\ ch = Alphabet[ExponentOf(v) + 1]
                   /\ value_from_str(ch) = [ok |-> TRUE, value |-> v]
    /\ op = "to_string" =>
          /\ text = [i \in 1..16 |->
                       value_to_string(pre_board.tiles[Position((i - 1) \div 4, (i - 1) % 4)])]
          /\ \A v \in CellValues :
                /\ value_to_string(v) = Alphabet[ExponentOf(v) + 1]
                /\ value_from_str(value_to_string(v)) = [ok |-> TRUE, value |-> v]
          /\ \A ch \in AlphabetChars :
                /\ value_from_str(ch).ok
                /\ value_from_str(ch).value \in CellValues
                /\ value_to_string(value_from_str(ch).value) = ch

\* the text of the board of test_board_serialization was returned
C25_Witness ==
    /\ op = "to_string"
    /\ HasBoard
    /\ text = SerializationText
    /\ board.tiles[Position(2, 1)] = Number(1024)

(***************************************************************************)
(* A deferred slide that becomes a merge.                                  *)
(***************************************************************************)
\* iteration k of the scan of a line of bd finds a slide pending and scans a
\* tile of the value of the pending tile, below MAX_TILE_VALUE
PendingMeetsEqual(bd, line, k) ==
    LET st == ScanPrefix(bd, line, k)
        cur == bd.tiles[line[k + 1]]
    IN /\ st.deferred # None
       /\ cur # Empty
       /\ st.deferred[1][1].value = cur
       /\ cur.n < MAX_TILE_VALUE

\* the tile of the pending slide and the slot the slide was going to
PendingTile(bd, line, k) == ScanPrefix(bd, line, k).deferred[1][1]
PendingSlot(bd, line, k) == ScanPrefix(bd, line, k).deferred[1][2]

WildCaseText ==
    <<"2", "0", "0", "0", "2", "0", "0", "0", "1", "0", "0", "0", "0", "0", "0", "0">>

\* C26: when a tile with a pending slide is followed in its line by a tile of
\* equal value below 2048, the plan has no SlideTile of the pending tile and
\* exactly one MergeTiles that involves it: its first source is the pending
\* tile at its position on the board before the move, its second source the
\* later tile at its position, its destination the slot of the pending slide.
C26_PendingSlideBecomesMerge ==
    op = "plan" =>
       \A l \in 1..pre_board.size :
          LET line == pre_board.traversal_map[in_direction][l]
          IN \A k \in 0..(Len(line) - 1) :
                PendingMeetsEqual(pre_board, line, k) =>
                   LET pend == PendingTile(pre_board, line, k)
                       slot == PendingSlot(pre_board, line, k)
                       cur == get_tile(pre_board, line[k + 1])
                   IN /\ pre_board.tiles[pend.position] = pend.value
                      /\ pend.position # slot
                      /\ \A a \in Range(last_plan) :
                            a.type = "SlideTile" => a.tile.position # pend.position
                      /\ Cardinality({i \in 1..Len(last_plan) :
                                         pend.position \in Sources(last_plan[i])}) = 1
                      /\ \E i \in 1..Len(last_plan) :
                            last_plan[i] = [type |-> "MergeTiles",
                                            tile1 |-> pend,
                                            tile2 |-> cur,
                                            to |-> slot,
                                            value |-> Number(2 * cur.value.n)]

\* the plan of the board 2000200010000000 for Down: the 4 at (1,0) has a slide
\* to (2,0) pending when the 4 at (0,0) is scanned
C26_Witness ==
    /\ op = "plan"
    /\ to_string(pre_board) = WildCaseText
    /\ in_direction = "Down"
    /\ PendingMeetsEqual(pre_board, pre_board.traversal_map["Down"][1], 3)
    /\ Len(last_plan) = 2

\* the position of the last tile before index k of a line
LastTileBefore(bd, line, k) ==
    line[CHOOSE j \in 1..k : /\ bd.tiles[line[j]] # Empty
                             /\ \A i \in (j + 1)..k : bd.tiles[line[i]] = Empty]

\* C27 as stated: when a deferred slide is converted into a merge, the
\* position recorded for the first source tile of the merge is the slot the
\* deferred slide was going to.
C27_MergeRecordsSlot ==
    op = "plan" =>
       \A l \in 1..pre_board.size :
          LET line == pre_board.traversal_map[in_direction][l]
          IN \A k \in 0..(Len(line) - 1) :
                PendingMeetsEqual(pre_board, line, k) =>
                   \A a \in Range(last_plan) :
                      (a.type = "MergeTiles" /\ a.tile2.position = line[k + 1])
                         => a.tile1.position = PendingSlot(pre_board, line, k)

\* C27, amended: when a deferred slide is converted into a merge, the position
\* recorded for the first source tile of the merge is the position of the tile
\* on the board before the move, which is not the slot the deferred slide was
\* going to; that slot is the destination of the merge.
C27_MergeRecordsOriginalPosition ==
    op = "plan" =>
       \A l \in 1..pre_board.size :
          LET line == pre_board.traversal_map[in_direction][l]
          IN \A k \in 0..(Len(line) - 1) :
                PendingMeetsEqual(pre_board, line, k) =>
                   \A a \in Range(last_plan) :
                      (a.type = "MergeTiles" /\ a.tile2.position = line[k + 1])
                         => /\ a.tile1.position = LastTileBefore(pre_board, line, k)
                            /\ a.tile1.position # PendingSlot(pre_board, line, k)
                            /\ a.to = PendingSlot(pre_board, line, k)

\* a plan with a merge to 2048 whose first source had a slide pending
C27_Witness ==
    /\ op = "plan"
    /\ \E l \in 1..pre_board.size : \E k \in 0..3 :
          /\ PendingMeetsEqual(pre_board, pre_board.traversal_map[in_direction][l], k)
          /\ \E a \in Range(last_plan) :
                /\ a.type = "MergeTiles"
                /\ a.tile2.position = pre_board.traversal_map[in_direction][l][k + 1]
                /\ a.value = Number(MAX_TILE_VALUE)

(***************************************************************************)
(* The order of the actions of a plan.                                     *)
(***************************************************************************)
\* the tiles an action records as its sources
SourceTiles(a) ==
    CASE a.type = "SlideTile" -> {a.tile}
      [] a.type = "MergeTiles" -> {a.tile1, a.tile2}
      [] a.type = "SpawnRandomTile" -> {}

\* applied in order from board bd, every action finds its recorded tiles at
\* their positions and lands on an empty cell or on one of its own sources
RECURSIVE ReplayWellFormed(_, _)
ReplayWellFormed(bd, events) ==
    IF events = <<>> THEN TRUE
    ELSE LET a == Head(events)
         IN /\ \A t \in SourceTiles(a) : bd.tiles[t.position] = t.value
            /\ \/ bd.tiles[Dest(a)] = Empty
               \/ Dest(a) \in Sources(a)
            /\ ReplayWellFormed(apply(bd, a), Tail(events))

\* C28: when a plan is replayed in order on the board it was made for, each
\* action finds at each of its source positions the value its tile records,
\* and its destination is Empty or one of its own source positions.
C28_ReplayIsWellFormed ==
    op = "plan" => ReplayWellFormed(pre_board, last_plan)

\* a plan with an action that lands on a cell which held another tile before
\* the move
C28_Witness ==
    /\ op = "plan"
    /\ \E i \in 1..Len(last_plan) :
          /\ pre_board.tiles[Dest(last_plan[i])] # Empty
          /\ Dest(last_plan[i]) \notin Sources(last_plan[i])
          /\ last_plan[i].type = "MergeTiles"

\* the number of the line of direction d that holds position p
LineIndexOf(bd, d, p) ==
    CHOOSE l \in 1..Len(bd.traversal_map[d]) : p \in Range(bd.traversal_map[d][l])

\* board bd with every cell outside a line emptied
OnlyLine(bd, line) ==
    [bd EXCEPT !.tiles = [p \in DOMAIN bd.tiles |->
                             IF p \in Range(line) THEN bd.tiles[p] ELSE Empty]]

\* C29: every source and destination of an action lies in one line of the
\* direction; the actions of a line come before the actions of the lines
\* after it; the actions of a line are the list slide_and_merge_line returns
\* for it on the unmodified board, and do not depend on the other lines.
C29_PlanIsConcatenationOfLines ==
    op = "plan" =>
       LET lines == pre_board.traversal_map[in_direction]
       IN /\ \A i \in 1..Len(last_plan) :
                \E l \in 1..Len(lines) :
                   Sources(last_plan[i]) \cup {Dest(last_plan[i])} \subseteq Range(lines[l])
          /\ \A i \in 1..Len(last_plan) : \A j \in (i + 1)..Len(last_plan) :
                LineIndexOf(pre_board, in_direction, Dest(last_plan[i]))
                   <= LineIndexOf(pre_board, in_direction, Dest(last_plan[j]))
          /\ \A l \in 1..Len(lines) :
                /\ LineActions(last_plan, lines[l])
                      = slide_and_merge_line(pre_board, lines[l]).events
                /\ LineActions(last_plan, lines[l])
                      = plan_slide_and_merge(OnlyLine(pre_board, lines[l]), in_direction).events

\* a plan with actions in at least three lines, the first line giving two
C29_Witness ==
    /\ op = "plan"
    /\ Cardinality({LineIndexOf(pre_board, in_direction, Dest(last_plan[i])) :
                       i \in 1..Len(last_plan)}) >= 3
    /\ Len(LineActions(last_plan, pre_board.traversal_map[in_direction][1])) = 2

\* C30: of two actions of a plan that land in the same line, the earlier one
\* lands at the smaller index of the line.
C30_DestinationsIncrease ==
    op = "plan" =>
       \A i \in 1..Len(last_plan) : \A j \in (i + 1)..Len(last_plan) :
          LET l == LineIndexOf(pre_board, in_direction, Dest(last_plan[i]))
              line == pre_board.traversal_map[in_direction][l]
          IN Dest(last_plan[j]) \in Range(line) =>
                IndexIn(line, Dest(last_plan[i])) < IndexIn(line, Dest(last_plan[j]))

\* a plan with a line that gives a slide, then a slide or a merge, and another
\* line that gives a merge and then a slide
C30_Witness ==
    /\ op = "plan"
    /\ \E l \in 1..pre_board.size :
          LET acts == LineActions(last_plan, pre_board.traversal_map[in_direction][l])
          IN Len(acts) = 2 /\ acts[1].type = "SlideTile"
    /\ \E l \in 1..pre_board.size :
          LET acts == LineActions(last_plan, pre_board.traversal_map[in_direction][l])
          IN Len(acts) = 2 /\ acts[1].type = "MergeTiles" /\ acts[2].type = "SlideTile"

(***************************************************************************)
(* What a plan moves.                                                      *)
(***************************************************************************)
\* the tile at index i (from 0) of a line stands at its final slot and does
\* not merge: the cells before it hold tiles, none of which merges, and the
\* next tile of the line does not merge with it
StaysInPlace(bd, line, i) ==
    /\ \A j \in 1..(i + 1) : bd.tiles[line[j]] # Empty
    /\ \A j \in 1..i :
          ~(bd.tiles[line[j]] = bd.tiles[line[j + 1]] /\ bd.tiles[line[j]].n < MAX_TILE_VALUE)
    /\ \A j \in (i + 2)..Len(line) :
          (/\ bd.tiles[line[j]] # Empty
           /\ \A m \in (i + 2)..(j - 1) : bd.tiles[line[m]] = Empty)
             => ~(bd.tiles[line[j]] = bd.tiles[line[i + 1]]
                     /\ bd.tiles[line[j]].n < MAX_TILE_VALUE)

\* C31: a SlideTile lands at a smaller index of its line than its source; a
\* MergeTiles lands at an index at most that of its first source, which is
\* smaller than that of its second source; the sources of an action are
\* tiles, never Empty cells; a tile that stands at its final slot and does not
\* merge is in no action.
C31_ActionsMoveTowardIndexZero ==
    op = "plan" =>
       /\ \A i \in 1..Len(last_plan) :
             LET a == last_plan[i]
                 line == pre_board.traversal_map[in_direction]
                            [LineIndexOf(pre_board, in_direction, Dest(a))]
             IN /\ \A t \in SourceTiles(a) :
                      t.value # Empty /\ pre_board.tiles[t.position] # Empty
                /\ a.type = "SlideTile" =>
                      IndexIn(line, a.to) < IndexIn(line, a.tile.position)
                /\ a.type = "MergeTiles" =>
                      /\ IndexIn(line, a.to) <= IndexIn(line, a.tile1.position)
                      /\ IndexIn(line, a.tile1.position) < IndexIn(line, a.tile2.position)
       /\ \A l \in 1..pre_board.size :
             LET line == pre_board.traversal_map[in_direction][l]
             IN \A i \in 0..(Len(line) - 1) :
                   StaysInPlace(pre_board, line, i) =>
                      \A a \in Range(last_plan) :
                         line[i + 1] \notin Sources(a) \cup {Dest(a)}

\* a plan with a slide and a merge for a board where a tile stays in place
\* in a line whose later tile slides
C31_Witness ==
    /\ op = "plan"
    /\ \E a \in Range(last_plan) : a.type = "MergeTiles" /\ a.to = a.tile1.position
    /\ \E l \in 1..pre_board.size :
          LET line == pre_board.traversal_map[in_direction][l]
          IN /\ StaysInPlace(pre_board, line, 0)
             /\ \E a \in Range(last_plan) : a.type = "SlideTile" /\ a.to = line[2]

\* the sum of the numbers on a board, and the number of its tiles
RECURSIVE SumOver(_, _)
SumOver(bd, ps) ==
    IF ps = {} THEN 0
    ELSE LET p == CHOOSE q \in ps : TRUE
         IN (IF bd.tiles[p] = Empty THEN 0 ELSE bd.tiles[p].n) + SumOver(bd, ps \ {p})

SumOfTiles(bd) == SumOver(bd, DOMAIN bd.tiles)

CountOfTiles(bd) == Cardinality({p \in DOMAIN bd.tiles : bd.tiles[p] # Empty})

MergeCount(events) == Len(SelectSeq(events, LAMBDA a : a.type = "MergeTiles"))

\* C32: a move leaves the sum of the numbers as it was and lowers the number
\* of tiles by the number of MergeTiles of the plan; a tile of the board
\* before the move is a source of at most one action, and of exactly one when
\* its cell holds another value after the move or it is in an action.
C32_MoveConservesTiles ==
    /\ op = "move" =>
          /\ SumOfTiles(board) = SumOfTiles(pre_board)
          /\ CountOfTiles(board)
                = CountOfTiles(pre_board)
                     - MergeCount(plan_slide_and_merge(pre_board, in_direction).events)
    /\ op = "plan" =>
          /\ SumOfTiles(PlannedBoard) = SumOfTiles(pre_board)
          /\ CountOfTiles(PlannedBoard) = CountOfTiles(pre_board) - MergeCount(last_plan)
          /\ \A p \in DOMAIN pre_board.tiles :
                pre_board.tiles[p] # Empty =>
                   LET n == Cardinality({i \in 1..Len(last_plan) : p \in Sources(last_plan[i])})
                   IN /\ n <= 1
                      /\ (PlannedBoard.tiles[p] # pre_board.tiles[p]) => n = 1
                      /\ (\E a \in Range(last_plan) : Dest(a) = p) => n = 1

\* a move with merges after a plan with merges and slides
C32_Witness ==
    /\ op = "move"
    /\ prev_plan # None
    /\ MergeCount(prev_plan[1][2]) >= 2
    /\ CountOfTiles(board) < CountOfTiles(pre_board)
    /\ SumOfTiles(board) >= 16

\* the board mirrored left to right, flipped top to bottom, and transposed
MirrorBoard(bd) ==
    [bd EXCEPT !.tiles = [p \in DOMAIN bd.tiles |->
                             bd.tiles[Position(p.row, bd.size - 1 - p.col)]]]

FlipBoard(bd) ==
    [bd EXCEPT !.tiles = [p \in DOMAIN bd.tiles |->
                             bd.tiles[Position(bd.size - 1 - p.row, p.col)]]]

TransposeBoard(bd) ==
    [bd EXCEPT !.tiles = [p \in DOMAIN bd.tiles |-> bd.tiles[Position(p.col, p.row)]]]

\* C34: moving Right is mirroring, moving Left and mirroring back; moving
\* Down is flipping, moving Up and flipping back; moving Up is transposing,
\* moving Left and transposing back; the plans of each pair have one length.
C34_MovesAreSymmetric ==
    op = "plan" =>
       /\ in_direction = "Right" =>
             LET twin_plan == plan_slide_and_merge(MirrorBoard(pre_board), "Left").events
             IN /\ PlannedBoard = MirrorBoard(apply_all(MirrorBoard(pre_board), twin_plan))
                /\ Len(last_plan) = Len(twin_plan)
       /\ in_direction = "Down" =>
             LET twin_plan == plan_slide_and_merge(FlipBoard(pre_board), "Up").events
             IN /\ PlannedBoard = FlipBoard(apply_all(FlipBoard(pre_board), twin_plan))
                /\ Len(last_plan) = Len(twin_plan)
       /\ in_direction = "Up" =>
             LET twin_plan == plan_slide_and_merge(TransposeBoard(pre_board), "Left").events
             IN /\ PlannedBoard
                      = TransposeBoard(apply_all(TransposeBoard(pre_board), twin_plan))
                /\ Len(last_plan) = Len(twin_plan)

\* a plan for Down with a merge and a slide on a board that its flip changes
C34_Witness ==
    /\ op = "plan"
    /\ in_direction = "Down"
    /\ FlipBoard(pre_board) # pre_board
    /\ MergeCount(last_plan) >= 1
    /\ MergeCount(last_plan) < Len(last_plan)

(***************************************************************************)
(* The move harness: a board is moved, and after a move it is planned for  *)
(* the direction of that move.                                             *)
(***************************************************************************)
MaxMoveSteps == 2     \* operations per behaviour of the move harness

InitMove == InitPlan

NextMove ==
    \/ steps < MaxMoveSteps /\ \E d \in Direction : SlideAndMerge(d)
    \/ steps < MaxMoveSteps /\ op = "move" /\ PlanSlideAndMerge(in_direction)

SpecMove == InitMove /\ [][NextMove]_vars

\* no Empty cell of the line comes before a tile
Compacted(bd, line) ==
    \A i \in 1..Len(line) : \A j \in (i + 1)..Len(line) :
       bd.tiles[line[i]] = Empty => bd.tiles[line[j]] = Empty

\* C33: after slide_and_merge(d) no Empty cell comes before a tile in any line
\* of d, and in a plan made for d right after the move every SlideTile comes
\* after a MergeTiles of its line (no tile only slides into a gap).
C33_MoveCompactsLines ==
    /\ op = "move" =>
          \A l \in 1..board.size : Compacted(board, board.traversal_map[in_direction][l])
    /\ op = "plan" =>
          \A i \in 1..Len(last_plan) :
             last_plan[i].type = "SlideTile" =>
                \E j \in 1..(i - 1) :
                   /\ last_plan[j].type = "MergeTiles"
                   /\ LineIndexOf(pre_board, in_direction, Dest(last_plan[j]))
                         = LineIndexOf(pre_board, in_direction, Dest(last_plan[i]))

\* a plan after a move that left equal neighbours: it merges them and slides
\* the tile behind them
C33_Witness ==
    /\ op = "plan"
    /\ steps = 2
    /\ \E i \in 1..Len(last_plan) : last_plan[i].type = "SlideTile"
    /\ \A l \in 1..pre_board.size :
          Compacted(pre_board, pre_board.traversal_map[in_direction][l])

(***************************************************************************)
(* Claims about the frame loop of main.rs.                                 *)
(***************************************************************************)
SpawnsIn(events) == Len(SelectSeq(events, LAMBDA a : a.type = "SpawnRandomTile"))

\* C35: handle_input plans and applies no move while deferred_events is
\* non-empty.  A handle_input step taken with a spawn pending leaves the board,
\* the sent actions, the pending spawn, the generator, the replay list and the
\* move count as they are, whatever key is pressed; and from the frame the
\* spawn was planned on, deferred_events changes in check_animations only.
C35_InputIgnoredWhileSpawnPending ==
    [][/\ (pc = "handle_input" /\ deferred_events # <<>>)
          => /\ board' = board
             /\ action_events' = action_events
             /\ deferred_events' = deferred_events
             /\ rng' = rng
             /\ replay' = replay
             /\ moves' = moves
       /\ (deferred_events # <<>> /\ deferred_events' # deferred_events)
          => pc = "check_animations"]_vars

\* handle_input has just returned early: a spawn is pending, the animations of
\* its move are still running and nothing was sent in this frame
C35_Witness ==
    /\ pc = "start_animate"
    /\ deferred_events # <<>>
    /\ action_events = <<>>
    /\ moves > 0
    /\ \E e \in DOMAIN animating : animating[e].animation.kind # "Spawning"

\* C36: check_animations sends the deferred spawn only in a frame in which no
\* entity carries an Animating component: a SpawnRandomTile is added to the
\* sent actions, and deferred_events is emptied, only by check_animations with
\* no animation running, and then the whole of deferred_events is sent.
\* deferred_events never holds more than one action.
C36_SpawnSentAfterAnimations ==
    [][/\ (SpawnsIn(action_events') > SpawnsIn(action_events)
           \/ (deferred_events # <<>> /\ deferred_events' # deferred_events))
          => /\ pc = "check_animations"
             /\ DOMAIN animating = {}
             /\ finishing = {}
             /\ action_events' = action_events \o deferred_events
             /\ deferred_events' = <<>>
       /\ Len(deferred_events) <= 1
       /\ Len(deferred_events') <= 1]_vars

\* check_animations has just sent the spawn of a move whose slide or merge
\* animations have all finished
C36_Witness ==
    /\ pc = "handle_input"
    /\ moves > 0
    /\ deferred_events = <<>>
    /\ action_events # <<>>
    /\ Head(action_events).type = "SpawnRandomTile"
    /\ DOMAIN animating = {}

OccupiedCells(bd) == {p \in DOMAIN bd.tiles : bd.tiles[p] # Empty}

\* C38: move_entity never finds its source missing, and once all animations
\* of a turn have finished, in whatever order update_animations has visited
\* the finished entities, GameState.entities maps exactly the non-empty board
\* positions to distinct live entities.
C38_EntitiesMatchBoard ==
    /\ panicked => pc = "start_animate"      \* no panic in move_entity
    /\ (pc = "check_animations" /\ DOMAIN animating = {} /\ ~panicked)
       => /\ DOMAIN entities = OccupiedCells(board)
          /\ \A p, q \in DOMAIN entities : p # q => entities[p] # entities[q]
          /\ \A p \in DOMAIN entities : entities[p] \in live

\* the spawns start_animate has applied so far: every tile entity beyond those
\* of the setup board was created by a SpawnRandomTile
SpawnsApplied == next_entity - 1 - Cardinality(OccupiedCells(from_str(SetupText).board))

\* a spawn waits in deferred_events, or was sent and is not yet read
SpawnPending == deferred_events # <<>> \/ SpawnsIn(action_events) > 0

\* C37: every spawn placed in deferred_events is eventually sent and applied
\* to the board exactly once, after which input is accepted again.  Every
\* animation of the loop finishes (each frame's delta is at least one tick),
\* and a program that has panicked takes no further step; so the claim says
\* that each spawn planned so far (one per move) is pending or was applied
\* once, and that the program has not panicked while a spawn is pending.
C37_DeferredSpawnIsDelivered ==
    /\ moves = SpawnsApplied + Len(deferred_events) + SpawnsIn(action_events)
    /\ SpawnPending => ~panicked

====
